---- MODULE Spec2Model ----
(***************************************************************************)
(* Role and permission gates of the LibraryProject of                      *)
(* advanced_features_and_security: the bookshelf and relationship_app      *)
(* views, their decorators, the user manager and the provisioning          *)
(* management commands, over the auth tables they share; and the book API  *)
(* of advanced-api-project: its generic views, serializer and filters.     *)
(***************************************************************************)
EXTENDS Integers, Sequences, FiniteSets, TLC

VARIABLES
    users,             \* auth user table: sequence of rows, the index is the pk
    user_groups,       \* users' "groups" relation: per user, a set of group names
    user_permissions,  \* users' "user_permissions" relation: per user, a set of rows
    permissions,       \* auth Permission table: set of [app, codename]
    groups,            \* auth Group table: name -> set of Permission rows
    profiles,          \* relationship_app UserProfile table: sequence of [user, role]
    books,             \* bookshelf Book table: pk -> row
    rbooks,            \* relationship_app Book table: pk -> [title, author]
    authors,           \* relationship_app Author table: pk -> [name]
    next_pk,           \* next auto-increment pk of each of the three tables above
    response,          \* the last response sent (or the last command's outcome)
    ran,               \* the management commands run so far, in order
    api_books,         \* advanced-api-project Book table: pk -> row
    api_authors,       \* advanced-api-project Author table: pk -> [name]
    api_next_pk,       \* next auto-increment pk of the API's Book table
    posted             \* the form data of the last request where it is recorded

vars == <<users, user_groups, user_permissions, permissions, groups, profiles,
          books, rbooks, authors, next_pk, response, ran,
          api_books, api_authors, api_next_pk, posted>>

auth == <<users, user_groups, user_permissions, permissions, groups, profiles>>
stores ==
    <<books, rbooks, authors, next_pk, api_books, api_authors, api_next_pk, posted>>

-----------------------------------------------------------------------------
(* Bounds *)

MaxPk == 1          \* the tables of books and authors hold pks 1..MaxPk
MaxRuns == 3        \* management commands run in one behaviour
MaxApiBooks == 2
MaxLoans == 2
MaxSaved == 3
MaxBlogUsers == 2    \* the API's Book table holds pks 1..MaxApiBooks

-----------------------------------------------------------------------------
(* Values *)

Anonymous == 0      \* request.user of a request without a session: AnonymousUser
None == 0           \* a null foreign key

Perm(app, codename) == [app |-> app, codename |-> codename]

GateCodenames == {"can_view", "can_create", "can_edit", "can_delete"}
BookshelfGate == {Perm("bookshelf", c) : c \in GateCodenames}
RelationshipGate == {Perm("relationship_app", c) : c \in GateCodenames}

\* The rows migrate creates for a model: the default add/change/delete/view
\* rows and the rows of its Meta.permissions.
BookshelfBookPermissions ==
    {Perm("bookshelf", c) : c \in {"add_book", "change_book", "delete_book", "view_book"}}

RelationshipBookPermissions ==
    {Perm("relationship_app", c) :
        c \in {"add_book", "change_book", "delete_book", "view_book",
               "can_add_book", "can_change_book", "can_delete_book"}}

RelationshipAuthorPermissions ==
    {Perm("relationship_app", c) :
        c \in {"add_author", "change_author", "delete_author", "view_author"}}

ModelPermissions ==
    BookshelfBookPermissions \cup RelationshipBookPermissions
        \cup RelationshipAuthorPermissions

RoleNames == {"admin", "librarian", "member"}
GroupNames == {"Viewers", "Editors", "Admins"}

UserRow(username, email, password, active, staff, super) ==
    [username |-> username, email |-> email, password |-> password,
     is_active |-> active, is_staff |-> staff, is_superuser |-> super]

\* password=None, the default of create_user.
NoPassword == "None"

\* A password stored as it was given.
make_password_Plain(password) == <<"plain", password>>

\* user.set_password: what is stored is a hash of the password, not the
\* password, and for None a password nothing verifies against.
make_password(password) ==
    IF password = NoPassword THEN <<"!", "">> ELSE <<"pbkdf2_sha256", password>>

\* user.check_password(raw_password)
check_password(raw_password, encoded) ==
    encoded[1] = "pbkdf2_sha256" /\ encoded[2] = raw_password

Principals == 0 .. Len(users)
UserIds == 1 .. Len(users)

-----------------------------------------------------------------------------
(* A call's outcome: the value returned or the exception raised, and the    *)
(* UserProfile table as the call leaves it.                                 *)

Return(v, table) == [exc |-> "", value |-> v, profiles |-> table]
Raise(e, table) == [exc |-> e, value |-> FALSE, profiles |-> table]

is_authenticated(user) == user # Anonymous

\* UserProfile.objects.get_or_create(user=user) in the place of get: a missing
\* row is created with the default role.
UserProfile_get_or_create(user) ==
    LET rows == {i \in 1 .. Len(profiles) : profiles[i].user = user}
    IN  IF user = Anonymous THEN Raise("TypeError", profiles)
        ELSE IF rows = {}
        THEN [exc |-> "", value |-> Len(profiles) + 1,
              profiles |-> Append(profiles, [user |-> user, role |-> "member"])]
        ELSE IF Cardinality(rows) > 1 THEN Raise("MultipleObjectsReturned", profiles)
        ELSE [exc |-> "", value |-> CHOOSE i \in rows : TRUE, profiles |-> profiles]

\* UserProfile.objects.get(user=user): the index of the user's row.
UserProfile_get(user) ==
    LET rows == {i \in 1 .. Len(profiles) : profiles[i].user = user}
    IN  IF user = Anonymous THEN Raise("TypeError", profiles)
        ELSE IF rows = {} THEN Raise("DoesNotExist", profiles)
        ELSE IF Cardinality(rows) > 1 THEN Raise("MultipleObjectsReturned", profiles)
        ELSE [exc |-> "", value |-> CHOOSE i \in rows : TRUE, profiles |-> profiles]

\* is_admin without its is_authenticated guard.
is_admin_NoAuthCheck(user) ==
    LET got == UserProfile_get(user)
    IN  IF got.exc = ""
        THEN Return(got.profiles[got.value].role = "admin", got.profiles)
        ELSE IF got.exc = "DoesNotExist" THEN Return(FALSE, got.profiles)
        ELSE Raise(got.exc, got.profiles)

is_admin(user) ==
    IF ~is_authenticated(user) THEN Return(FALSE, profiles)
    ELSE LET got == UserProfile_get(user)
         IN  IF got.exc = ""
             THEN Return(got.profiles[got.value].role = "admin", got.profiles)
             ELSE IF got.exc = "DoesNotExist" THEN Return(FALSE, got.profiles)
             ELSE Raise(got.exc, got.profiles)

\* is_librarian without its "except UserProfile.DoesNotExist".
is_librarian_NoCatch(user) ==
    IF ~is_authenticated(user) THEN Return(FALSE, profiles)
    ELSE LET got == UserProfile_get(user)
         IN  IF got.exc = ""
             THEN Return(got.profiles[got.value].role = "librarian", got.profiles)
             ELSE Raise(got.exc, got.profiles)

is_librarian(user) ==
    IF ~is_authenticated(user) THEN Return(FALSE, profiles)
    ELSE LET got == UserProfile_get(user)
         IN  IF got.exc = ""
             THEN Return(got.profiles[got.value].role = "librarian", got.profiles)
             ELSE IF got.exc = "DoesNotExist" THEN Return(FALSE, got.profiles)
             ELSE Raise(got.exc, got.profiles)

\* is_member with a hierarchy of roles: a librarian and an admin are members too.
is_member_Hierarchy(user) ==
    IF ~is_authenticated(user) THEN Return(FALSE, profiles)
    ELSE LET got == UserProfile_get(user)
         IN  IF got.exc = ""
             THEN Return(got.profiles[got.value].role \in RoleNames, got.profiles)
             ELSE IF got.exc = "DoesNotExist" THEN Return(FALSE, got.profiles)
             ELSE Raise(got.exc, got.profiles)

is_member(user) ==
    IF ~is_authenticated(user) THEN Return(FALSE, profiles)
    ELSE LET got == UserProfile_get(user)
         IN  IF got.exc = ""
             THEN Return(got.profiles[got.value].role = "member", got.profiles)
             ELSE IF got.exc = "DoesNotExist" THEN Return(FALSE, got.profiles)
             ELSE Raise(got.exc, got.profiles)

-----------------------------------------------------------------------------
(* Permission checks of the user model (AbstractUser) *)

\* The grants a user holds through the groups it belongs to.
group_permissions(user) ==
    UNION {groups[g] : g \in user_groups[user] \cap DOMAIN groups}

\* get_all_permissions without the grants of the user's groups.
all_permissions_DirectOnly(user) ==
    IF user = Anonymous \/ ~users[user].is_active THEN {}
    ELSE user_permissions[user]

\* user.get_all_permissions(): direct grants and group grants.
all_permissions(user) ==
    IF user = Anonymous \/ ~users[user].is_active THEN {}
    ELSE user_permissions[user] \cup group_permissions(user)

\* has_perm as a bare membership test in the user's grants.
has_perm_GrantsOnly(user, perm) ==
    user # Anonymous /\ perm \in all_permissions(user)

\* user.has_perm('app.codename')
has_perm(user, perm) ==
    IF user = Anonymous THEN FALSE
    ELSE IF users[user].is_active /\ users[user].is_superuser THEN TRUE
    ELSE perm \in all_permissions(user)

-----------------------------------------------------------------------------
(* Requests, responses and the decorators of the views *)

Request(user, method, csrf, pk, form) ==
    [user |-> user, method |-> method, csrf |-> csrf, pk |-> pk, form |-> form]

\* csrf: the request carried a valid token; url_pk: the text of the pk segment
\* of its URL, "" where the URL has none; route: the view whose URL pattern
\* has that segment. view is the view that ran, "" where none did.
Response(view, request, status, location, exc) ==
    [view |-> view, user |-> request.user, method |-> request.method,
     csrf |-> request.csrf, url_pk |-> "", route |-> "",
     status |-> status, location |-> location, exc |-> exc, context |-> {}]

\* What a request leaves behind: its response and the tables.
Outcome(resp, b, rb, a, n) ==
    [response |-> resp, books |-> b, rbooks |-> rb, authors |-> a, next_pk |-> n,
     profiles |-> profiles]

Unchanged(resp) == Outcome(resp, books, rbooks, authors, next_pk)

\* @permission_required(perm, raise_exception=True): PermissionDenied is
\* raised before the view is entered and becomes the 403 response.
permission_required(view, request, perm, inner) ==
    IF has_perm(request.user, perm) THEN inner
    ELSE Unchanged(Response(view, request, 403, "", "PermissionDenied"))

\* @user_passes_test(test_func): a failed test redirects to the login page.
user_passes_test(view, request, test, inner) ==
    LET outcome ==
            IF test.exc # "" THEN Unchanged(Response(view, request, 500, "", test.exc))
            ELSE IF test.value THEN inner
            ELSE Unchanged(Response(view, request, 302, "login", ""))
    IN  [outcome EXCEPT !.profiles = test.profiles]

\* @login_required
login_required(view, request, inner) ==
    IF is_authenticated(request.user) THEN inner
    ELSE Unchanged(Response(view, request, 302, "login", ""))

\* The methods the CSRF check lets through without a token.
SafeMethods == {"GET", "HEAD", "OPTIONS", "TRACE"}

\* @csrf_exempt in the place of @csrf_protect.
csrf_exempt(view, request, inner) == inner

\* @csrf_protect: a request of an unsafe method needs a valid token.
csrf_protect(view, request, inner) ==
    IF request.method \notin SafeMethods /\ ~request.csrf
    THEN Unchanged(Response(view, request, 403, "", "CsrfFailure"))
    ELSE inner

\* A view left without @require_http_methods.
require_http_methods_Any(view, request, inner) == inner

\* @require_http_methods(["GET", "POST"])
require_http_methods(view, request, inner) ==
    IF request.method \notin {"GET", "POST"}
    THEN Unchanged(Response(view, request, 405, "", ""))
    ELSE inner

\* A table without the row pk.
Without(table, pk) == [k \in DOMAIN table \ {pk} |-> table[k]]

\* A table with the row pk set.
With(table, pk, row) == [k \in DOMAIN table \cup {pk} |-> IF k = pk THEN row ELSE table[k]]

-----------------------------------------------------------------------------
(* relationship_app: forms and views *)

RelBookData(title, author) == [title |-> title, author |-> author]
AuthorData(name) == [name |-> name]

\* BookForm(fields = title, author).is_valid()
RelBookForm_is_valid(form) == form.title # "" /\ form.author \in DOMAIN authors

\* AuthorForm(fields = name).is_valid()
AuthorForm_is_valid(form) == form.name # ""

relationship_list_books(request) ==
    permission_required("relationship_app.list_books", request,
        Perm("relationship_app", "can_view"),
        Unchanged(Response("relationship_app.list_books", request, 200, "", "")))

relationship_add_book(request) ==
    LET view == "relationship_app.add_book" IN
    permission_required(view, request, Perm("relationship_app", "can_create"),
        IF request.method = "POST" /\ RelBookForm_is_valid(request.form)
        THEN Outcome(Response(view, request, 302, "list_books", ""),
                     books, With(rbooks, next_pk.rbook, request.form), authors,
                     [next_pk EXCEPT !.rbook = @ + 1])
        ELSE Unchanged(Response(view, request, 200, "", "")))

relationship_change_book(request) ==
    LET view == "relationship_app.change_book" IN
    permission_required(view, request, Perm("relationship_app", "can_edit"),
        IF request.pk \notin DOMAIN rbooks
        THEN Unchanged(Response(view, request, 500, "", "DoesNotExist"))
        ELSE IF request.method = "POST" /\ RelBookForm_is_valid(request.form)
        THEN Outcome(Response(view, request, 302, "list_books", ""),
                     books, With(rbooks, request.pk, request.form), authors, next_pk)
        ELSE Unchanged(Response(view, request, 200, "", "")))

\* delete_book with the row deleted before the permission is looked at.
relationship_delete_book_CheckAfter(request) ==
    LET view == "relationship_app.delete_book"
        deleted == IF request.pk \in DOMAIN rbooks
                   THEN Without(rbooks, request.pk) ELSE rbooks
    IN  IF request.pk \notin DOMAIN rbooks
        THEN Unchanged(Response(view, request, 500, "", "DoesNotExist"))
        ELSE IF has_perm(request.user, Perm("relationship_app", "can_delete"))
        THEN Outcome(Response(view, request, 302, "list_books", ""),
                     books, deleted, authors, next_pk)
        ELSE Outcome(Response(view, request, 403, "", "PermissionDenied"),
                     books, deleted, authors, next_pk)

relationship_delete_book(request) ==
    LET view == "relationship_app.delete_book" IN
    permission_required(view, request, Perm("relationship_app", "can_delete"),
        IF request.pk \notin DOMAIN rbooks
        THEN Unchanged(Response(view, request, 500, "", "DoesNotExist"))
        ELSE Outcome(Response(view, request, 302, "list_books", ""),
                     books, Without(rbooks, request.pk), authors, next_pk))

relationship_list_authors(request) ==
    permission_required("relationship_app.list_authors", request,
        Perm("relationship_app", "can_view"),
        Unchanged(Response("relationship_app.list_authors", request, 200, "", "")))

relationship_add_author(request) ==
    LET view == "relationship_app.add_author" IN
    permission_required(view, request, Perm("relationship_app", "can_create"),
        IF request.method = "POST" /\ AuthorForm_is_valid(request.form)
        THEN Outcome(Response(view, request, 302, "list_authors", ""),
                     books, rbooks, With(authors, next_pk.author, request.form),
                     [next_pk EXCEPT !.author = @ + 1])
        ELSE Unchanged(Response(view, request, 200, "", "")))

relationship_change_author(request) ==
    LET view == "relationship_app.change_author" IN
    permission_required(view, request, Perm("relationship_app", "can_edit"),
        IF request.pk \notin DOMAIN authors
        THEN Unchanged(Response(view, request, 404, "", "Http404"))
        ELSE IF request.method = "POST" /\ AuthorForm_is_valid(request.form)
        THEN Outcome(Response(view, request, 302, "list_authors", ""),
                     books, rbooks, With(authors, request.pk, request.form), next_pk)
        ELSE Unchanged(Response(view, request, 200, "", "")))

\* Book.author is on_delete=CASCADE: the author's books go with it.
relationship_delete_author(request) ==
    LET view == "relationship_app.delete_author" IN
    permission_required(view, request, Perm("relationship_app", "can_delete"),
        IF request.pk \notin DOMAIN authors
        THEN Unchanged(Response(view, request, 404, "", "Http404"))
        ELSE Outcome(Response(view, request, 302, "list_authors", ""),
                     books,
                     [k \in {j \in DOMAIN rbooks : rbooks[j].author # request.pk}
                        |-> rbooks[k]],
                     Without(authors, request.pk), next_pk))

\* TemplateView.dispatch: a TemplateView answers GET only.
TemplateView(view, request) ==
    IF request.method = "GET"
    THEN Unchanged(Response(view, request, 200, "", ""))
    ELSE Unchanged(Response(view, request, 405, "", ""))

AdminView(request) ==
    user_passes_test("relationship_app.AdminView", request, is_admin(request.user),
        TemplateView("relationship_app.AdminView", request))

LibrarianView(request) ==
    user_passes_test("relationship_app.LibrarianView", request,
        is_librarian(request.user),
        TemplateView("relationship_app.LibrarianView", request))

MemberView(request) ==
    user_passes_test("relationship_app.MemberView", request, is_member(request.user),
        TemplateView("relationship_app.MemberView", request))

-----------------------------------------------------------------------------
(* bookshelf: BookForm and views *)

ShelfData(title, author, year, borrower) ==
    [title |-> title, author |-> author, publication_year |-> year,
     borrower |-> borrower]

\* The texts a publication_year field is posted with, and IntegerField's
\* reading of them: the empty and the non-numeric text are no integer.
YearTexts == {"", "invalid_year", "0", "999", "1000", "2000", "2024", "2025"}

IsInteger(text) == text \in {"0", "999", "1000", "2000", "2024", "2025"}

ToInteger(text) ==
    CASE text = "0" -> 0
      [] text = "999" -> 999
      [] text = "1000" -> 1000
      [] text = "2000" -> 2000
      [] text = "2024" -> 2024
      [] text = "2025" -> 2025
      [] OTHER -> 0

\* BookForm.clean_publication_year
clean_publication_year(year) == ~(year # 0 /\ (year < 1000 \/ year > 2024))

\* The borrower field left with the queryset of the model field: every user.
borrower_queryset_All == UserIds

\* BookForm.__init__: the users who are not already borrowing a book.
borrower_queryset ==
    {u \in UserIds : \A k \in DOMAIN books : books[k].borrower # u}

BookForm_is_valid(form) ==
    /\ form.title # ""
    /\ form.author # ""
    /\ IsInteger(form.publication_year)
    /\ clean_publication_year(ToInteger(form.publication_year))
    /\ form.borrower = None \/ form.borrower \in borrower_queryset

\* The row form.save() writes.
BookForm_cleaned(form) ==
    ShelfData(form.title, form.author, ToInteger(form.publication_year), form.borrower)

bookshelf_book_list(request) ==
    LET view == "bookshelf.book_list" IN
    permission_required(view, request, Perm("bookshelf", "can_view"),
        csrf_protect(view, request,
            Unchanged(Response(view, request, 200, "", ""))))

bookshelf_list_books(request) ==
    permission_required("bookshelf.list_books", request, Perm("bookshelf", "can_view"),
        bookshelf_book_list(request))

bookshelf_add_book(request) ==
    LET view == "bookshelf.add_book" IN
    permission_required(view, request, Perm("bookshelf", "can_create"),
        csrf_protect(view, request,
            require_http_methods(view, request,
                IF request.method = "POST" /\ BookForm_is_valid(request.form)
                THEN Outcome(Response(view, request, 302, "book_list", ""),
                             With(books, next_pk.book, BookForm_cleaned(request.form)),
                             rbooks, authors, [next_pk EXCEPT !.book = @ + 1])
                ELSE Unchanged(Response(view, request, 200, "", "")))))

\* "not pk or not str(pk).isdigit()": the int converter of the URL hands the
\* view a non-negative integer, of which only 0 is refused.
is_invalid_pk(pk) == pk = 0

\* Http404 of get_object_or_404 is caught by the view's "except Exception".
bookshelf_edit_book(request) ==
    LET view == "bookshelf.edit_book" IN
    permission_required(view, request, Perm("bookshelf", "can_edit"),
        csrf_protect(view, request,
            require_http_methods(view, request,
                IF is_invalid_pk(request.pk) \/ request.pk \notin DOMAIN books
                THEN Unchanged(Response(view, request, 302, "book_list", ""))
                ELSE IF request.method = "POST" /\ BookForm_is_valid(request.form)
                THEN Outcome(Response(view, request, 302, "book_list", ""),
                             With(books, request.pk, BookForm_cleaned(request.form)),
                             rbooks, authors, next_pk)
                ELSE Unchanged(Response(view, request, 200, "", "")))))

\* delete_book without the test of the method: the book is deleted by any
\* request that reaches the body.
bookshelf_delete_book_AnyMethod(request) ==
    LET view == "bookshelf.delete_book" IN
    permission_required(view, request, Perm("bookshelf", "can_delete"),
        csrf_protect(view, request,
            require_http_methods(view, request,
                IF is_invalid_pk(request.pk) \/ request.pk \notin DOMAIN books
                THEN Unchanged(Response(view, request, 302, "book_list", ""))
                ELSE Outcome(Response(view, request, 302, "book_list", ""),
                             Without(books, request.pk), rbooks, authors, next_pk))))

bookshelf_delete_book(request) ==
    LET view == "bookshelf.delete_book" IN
    permission_required(view, request, Perm("bookshelf", "can_delete"),
        csrf_protect(view, request,
            require_http_methods(view, request,
                IF is_invalid_pk(request.pk) \/ request.pk \notin DOMAIN books
                THEN Unchanged(Response(view, request, 302, "book_list", ""))
                ELSE IF request.method = "POST"
                THEN Outcome(Response(view, request, 302, "book_list", ""),
                             Without(books, request.pk), rbooks, authors, next_pk)
                ELSE Unchanged(Response(view, request, 200, "", "")))))

bookshelf_book_detail(request) ==
    LET view == "bookshelf.book_detail" IN
    login_required(view, request,
        csrf_protect(view, request,
            IF is_invalid_pk(request.pk) \/ request.pk \notin DOMAIN books
            THEN Unchanged(Response(view, request, 302, "book_list", ""))
            ELSE Unchanged(Response(view, request, 200, "", ""))))

\* The context's "permissions": the gate codenames user.has_perm answers True for.
bookshelf_user_dashboard(request) ==
    LET view == "bookshelf.user_dashboard" IN
    login_required(view, request,
        csrf_protect(view, request,
            Unchanged([Response(view, request, 200, "", "") EXCEPT !.context =
                {c \in GateCodenames : has_perm(request.user, Perm("bookshelf", c))}])))

-----------------------------------------------------------------------------
(* The requests the views are driven with *)

\* request.user: the anonymous user, or a user that can log in (an active one).
Requesters == {Anonymous} \cup {u \in UserIds : users[u].is_active}

NoForm == [title |-> ""]

RelBookForms == {RelBookData(t, a) : t \in {"", "Dune"}, a \in 1 .. MaxPk}
AuthorForms == {AuthorData(n) : n \in {"", "Herbert"}}
ShelfForms ==
    {ShelfData("Dune", "Herbert", "2000", None),
     ShelfData("", "Herbert", "2025", None)}
    \cup {ShelfData("Dune", "Herbert", y, None) : y \in {"0", "999", "invalid_year"}}

\* GET requests.
Reads(pks) == {Request(u, "GET", FALSE, pk, NoForm) : u \in Requesters, pk \in pks}

\* A GET, and a POST of each form.
Writes(pks, forms) ==
    Reads(pks) \cup
    {Request(u, "POST", TRUE, pk, f) : u \in Requesters, pk \in pks, f \in forms}

\* The same, and a POST without its CSRF token, a PUT with and without one
\* and a HEAD.
Protected(pks, forms) ==
    Writes(pks, forms) \cup
    {Request(u, mc[1], mc[2], pk, CHOOSE f \in forms : TRUE) :
        u \in Requesters,
        mc \in {<<"POST", FALSE>>, <<"PUT", TRUE>>, <<"PUT", FALSE>>, <<"HEAD", FALSE>>},
        pk \in pks}

\* The int converter of path('books/<int:pk>/'): the segments of digits, and
\* the integer each is read as.
int_converter == [s \in {"0", "1", "2", "3"} |-> CASE s = "0" -> 0 [] s = "1" -> 1
                                                   [] s = "2" -> 2 [] s = "3" -> 3]

\* The pk segments of the URLs asked for: the pks the tables can hold, 0, and
\* one that is no string of digits.
PkSegments ==
    {s \in DOMAIN int_converter : int_converter[s] <= MaxPk} \cup {"abc"}

\* The URL resolver on a path with an <int:pk> segment: a segment that is a
\* string of digits reaches the view (named outcome here, for the request
\* with pk so converted); any other matches no pattern, which is a 404 that
\* no view has run for.
path_int(view, request, segment, outcome) ==
    IF segment \in DOMAIN int_converter
    THEN [outcome EXCEPT !.response.url_pk = segment, !.response.route = view]
    ELSE Unchanged([Response("", request, 404, "", "Resolver404")
                        EXCEPT !.url_pk = segment, !.route = view])

\* The request r for the pk the segment converts to.
ForSegment(r, segment) ==
    [r EXCEPT !.pk = IF segment \in DOMAIN int_converter
                     THEN int_converter[segment] ELSE None]

\* The server sends the view's response and commits what the view wrote.
Serve(outcome) ==
    /\ outcome.next_pk.book <= MaxPk + 1
    /\ outcome.next_pk.rbook <= MaxPk + 1
    /\ outcome.next_pk.author <= MaxPk + 1
    /\ response' = outcome.response
    /\ books' = outcome.books
    /\ rbooks' = outcome.rbooks
    /\ authors' = outcome.authors
    /\ next_pk' = outcome.next_pk
    /\ profiles' = outcome.profiles
    /\ UNCHANGED <<users, user_groups, user_permissions, permissions, groups, ran,
                   api_books, api_authors, api_next_pk, posted>>

RelListBooks ==
    \E r \in Reads({0}) : Serve(relationship_list_books(r))
RelAddBook ==
    \E r \in Writes({0}, RelBookForms) : Serve(relationship_add_book(r))
RelChangeBook ==
    \E r \in Writes(1 .. MaxPk, RelBookForms) : Serve(relationship_change_book(r))
RelDeleteBook ==
    \E r \in Writes(1 .. MaxPk, {NoForm}) : Serve(relationship_delete_book(r))
RelListAuthors ==
    \E r \in Reads({0}) : Serve(relationship_list_authors(r))
RelAddAuthor ==
    \E r \in Writes({0}, AuthorForms) : Serve(relationship_add_author(r))
RelChangeAuthor ==
    \E r \in Writes(1 .. MaxPk, AuthorForms) : Serve(relationship_change_author(r))
RelDeleteAuthor ==
    \E r \in Writes(1 .. MaxPk, {NoForm}) : Serve(relationship_delete_author(r))
RelAdminView ==
    \E r \in Writes({0}, {NoForm}) : Serve(AdminView(r))
RelLibrarianView ==
    \E r \in Writes({0}, {NoForm}) : Serve(LibrarianView(r))
RelMemberView ==
    \E r \in Writes({0}, {NoForm}) : Serve(MemberView(r))

ShelfBookList ==
    \E r \in Reads({0}) : Serve(bookshelf_book_list(r))
ShelfListBooks ==
    \E r \in Reads({0}) : Serve(bookshelf_list_books(r))
ShelfAddBook ==
    \E r \in Protected({0}, ShelfForms) : Serve(bookshelf_add_book(r))
ShelfEditBook ==
    \E r \in Protected({0}, ShelfForms), segment \in PkSegments :
        Serve(path_int("bookshelf.edit_book", r, segment,
                       bookshelf_edit_book(ForSegment(r, segment))))
ShelfDeleteBook ==
    \E r \in Protected({0}, {NoForm}), segment \in PkSegments :
        Serve(path_int("bookshelf.delete_book", r, segment,
                       bookshelf_delete_book(ForSegment(r, segment))))
ShelfBookDetail ==
    \E r \in Reads({0}), segment \in PkSegments :
        Serve(path_int("bookshelf.book_detail", r, segment,
                       bookshelf_book_detail(ForSegment(r, segment))))
ShelfUserDashboard ==
    \E r \in Reads({0}) : Serve(bookshelf_user_dashboard(r))

-----------------------------------------------------------------------------
(* The database the gates are exercised on *)

\* The groups as SecurityTestCase.setUp fills them, with the gate codenames of
\* the apps whose rows the Permission table holds.
FixtureGroups(gate_apps) ==
    [g \in GroupNames |->
        {Perm(app, c) : app \in gate_apps,
            c \in CASE g = "Viewers" -> {"can_view"}
                    [] g = "Editors" -> {"can_view", "can_create", "can_edit"}
                    [] g = "Admins" -> GateCodenames}]

NoResponse ==
    [view |-> "", user |-> Anonymous, method |-> "", csrf |-> FALSE, url_pk |-> "",
     route |-> "", status |-> 0, location |-> "", exc |-> "", context |-> {}]

EmptyTable == [k \in {} |-> NoForm]

InitStores ==
    /\ books = EmptyTable
    /\ rbooks = EmptyTable
    /\ authors = EmptyTable
    /\ next_pk = [book |-> 1, rbook |-> 1, author |-> 1]
    /\ response = NoResponse
    /\ ran = <<>>
    /\ api_books = EmptyTable
    /\ api_authors = EmptyTable
    /\ api_next_pk = 1
    /\ posted = NoForm

\* The users SecurityTestCase.setUp creates with create_user.
FixtureUsers ==
    <<UserRow("viewer", "viewer@test.com", make_password("testpass123"), TRUE, FALSE, FALSE),
      UserRow("editor", "editor@test.com", make_password("testpass123"), TRUE, FALSE, FALSE),
      UserRow("admin", "admin@test.com", make_password("testpass123"), TRUE, FALSE, FALSE)>>

\* Three users in the three groups; the Permission table holds the rows of
\* the models and the gate rows of at most one app; the first user holds any
\* profile or none, and, where the bookshelf gate rows exist, may hold a
\* direct grant.
Init ==
    /\ users = FixtureUsers
    /\ user_groups = <<{"Viewers"}, {"Editors"}, {"Admins"}>>
    /\ \E gate_apps \in {{}, {"bookshelf"}, {"relationship_app"}} :
        /\ permissions =
            ModelPermissions \cup {Perm(a, c) : a \in gate_apps, c \in GateCodenames}
        /\ groups = FixtureGroups(gate_apps)
        /\ \E direct \in SUBSET {Perm(a, "can_delete") : a \in gate_apps \cap {"bookshelf"}} :
            user_permissions = <<direct, {}, {}>>
        /\ \E first \in IF gate_apps = {} THEN SUBSET RoleNames ELSE {{"member"}} :
            /\ Cardinality(first) <= 1
            /\ profiles = [i \in 1 .. Cardinality(first) |->
                             [user |-> 1, role |-> CHOOSE q \in first : TRUE]]
                          \o <<[user |-> 2, role |-> "librarian"],
                               [user |-> 3, role |-> "admin"]>>
    /\ InitStores

Next ==
    \/ RelListBooks \/ RelAddBook \/ RelChangeBook \/ RelDeleteBook
    \/ RelListAuthors \/ RelAddAuthor \/ RelChangeAuthor \/ RelDeleteAuthor
    \/ RelAdminView \/ RelLibrarianView \/ RelMemberView
    \/ ShelfBookList \/ ShelfListBooks \/ ShelfAddBook \/ ShelfEditBook
    \/ ShelfDeleteBook \/ ShelfBookDetail \/ ShelfUserDashboard

Spec == Init /\ [][Next]_vars

-----------------------------------------------------------------------------
(* The user manager and the provisioning commands, as functions of the      *)
(* auth tables                                                              *)

Db == [users |-> users, user_groups |-> user_groups,
       user_permissions |-> user_permissions, permissions |-> permissions,
       groups |-> groups, profiles |-> profiles]

\* A step's outcome: the exception it raised, if any, the tables it leaves
\* and the pk of the row it made or found.
Ok(db, pk) == [exc |-> "", db |-> db, pk |-> pk]
Fail(exc, db) == [exc |-> exc, db |-> db, pk |-> None]

\* BaseUserManager.normalize_email: the domain part is lowercased.
normalize_email(email) ==
    CASE email = "root@EXAMPLE.com" -> "root@example.com"
      [] OTHER -> email

\* user.save() of a new row, were email not declared unique.
User_insert_UsernameOnly(db, row) ==
    IF \E i \in 1 .. Len(db.users) : db.users[i].username = row.username
    THEN Fail("IntegrityError", db)
    ELSE Ok([db EXCEPT !.users = Append(@, row),
                       !.user_groups = Append(@, {}),
                       !.user_permissions = Append(@, {})],
            Len(db.users) + 1)

\* user.save() of a new row: username and email are unique.
User_insert(db, row) ==
    IF \E i \in 1 .. Len(db.users) :
            db.users[i].username = row.username \/ db.users[i].email = row.email
    THEN Fail("IntegrityError", db)
    ELSE Ok([db EXCEPT !.users = Append(@, row),
                       !.user_groups = Append(@, {}),
                       !.user_permissions = Append(@, {})],
            Len(db.users) + 1)

\* A keyword argument of the manager's methods is "unset", "True" or "False".
Flags == {"unset", "True", "False"}

\* The value of a BooleanField of the row made: the keyword argument, or the
\* default of the field where none was passed.
field_value(flag, default) == IF flag = "unset" THEN default ELSE flag = "True"

\* CustomUserManager.create_user(email, password, username=, is_staff=,
\* is_superuser=); is_active is left at its default.
create_user(db, email, password, username, is_staff, is_superuser) ==
    IF email = "" THEN Fail("ValueError", db)
    ELSE User_insert(db, UserRow(username, normalize_email(email),
                                 make_password(password), TRUE,
                                 field_value(is_staff, FALSE),
                                 field_value(is_superuser, FALSE)))

\* create_superuser without its two checks of the flags.
create_superuser_Unchecked(db, email, password, username, is_staff, is_superuser) ==
    create_user(db, email, password, username,
                IF is_staff = "unset" THEN "True" ELSE is_staff,
                IF is_superuser = "unset" THEN "True" ELSE is_superuser)

\* CustomUserManager.create_superuser: setdefault of the flags, then the checks.
create_superuser(db, email, password, username, is_staff, is_superuser) ==
    LET staff == IF is_staff = "unset" THEN "True" ELSE is_staff
        super == IF is_superuser = "unset" THEN "True" ELSE is_superuser
    IN  IF staff # "True" THEN Fail("ValueError", db)
        ELSE IF super # "True" THEN Fail("ValueError", db)
        ELSE create_user(db, email, password, username, staff, super)

\* UserProfile.objects.create(user=user, role=role) without the uniqueness of
\* the one-to-one relation (a ForeignKey in its place).
UserProfile_create_NotUnique(db, user, role) ==
    Ok([db EXCEPT !.profiles = Append(@, [user |-> user, role |-> role])],
       Len(db.profiles) + 1)

\* UserProfile.objects.create(user=user, role=role): user is one-to-one.
UserProfile_create(db, user, role) ==
    IF \E i \in 1 .. Len(db.profiles) : db.profiles[i].user = user
    THEN Fail("IntegrityError", db)
    ELSE Ok([db EXCEPT !.profiles = Append(@, [user |-> user, role |-> role])],
            Len(db.profiles) + 1)

\* User.objects.get_or_create(username=, defaults={email, is_active}) and, for
\* a row just created, set_password and save.
User_get_or_create(db, username, email, password) ==
    LET found == {i \in 1 .. Len(db.users) : db.users[i].username = username}
    IN  IF found # {} THEN Ok(db, CHOOSE i \in found : TRUE)
        ELSE User_insert(db, UserRow(username, email, make_password(password),
                                     TRUE, FALSE, FALSE))

\* Group.objects.get(name=) and user.groups.add(group); a missing group is
\* reported and skipped.
assign_to_group(db, user, group) ==
    IF group \in DOMAIN db.groups
    THEN [db EXCEPT !.user_groups[user] = @ \cup {group}]
    ELSE db

\* The loop body of relationship_app's create_test_users: UserProfile
\* get_or_create(user=, defaults={role}), and the role set anew on a row found.
profile_get_or_create_or_update(db, user, role) ==
    LET rows == {i \in 1 .. Len(db.profiles) : db.profiles[i].user = user}
    IN  IF rows = {} THEN UserProfile_create(db, user, role)
        ELSE IF Cardinality(rows) > 1 THEN Fail("MultipleObjectsReturned", db)
        ELSE Ok([db EXCEPT !.profiles[CHOOSE i \in rows : TRUE].role = role], user)

BookshelfTestUsers ==
    <<[username |-> "viewer_user", email |-> "viewer@bookshelf.com", group |-> "Viewers"],
      [username |-> "editor_user", email |-> "editor@bookshelf.com", group |-> "Editors"],
      [username |-> "admin_user", email |-> "admin@bookshelf.com", group |-> "Admins"]>>

RelationshipTestUsers ==
    <<[username |-> "viewer_user", email |-> "viewer@example.com", group |-> "Viewers",
       role |-> "member"],
      [username |-> "editor_user", email |-> "editor@example.com", group |-> "Editors",
       role |-> "librarian"],
      [username |-> "admin_user", email |-> "admin@example.com", group |-> "Admins",
       role |-> "admin"]>>

\* bookshelf create_test_users, from the i-th test user on; an exception of
\* get_or_create ends the command where it stands.
RECURSIVE bookshelf_create_test_users(_, _)
bookshelf_create_test_users(db, i) ==
    IF i > Len(BookshelfTestUsers) THEN Ok(db, None)
    ELSE LET data == BookshelfTestUsers[i]
             got == User_get_or_create(db, data.username, data.email, "testpass123")
         IN  IF got.exc # "" THEN got
             ELSE bookshelf_create_test_users(
                      assign_to_group(got.db, got.pk, data.group), i + 1)

\* relationship_app create_test_users, from the i-th test user on.
RECURSIVE relationship_create_test_users(_, _)
relationship_create_test_users(db, i) ==
    IF i > Len(RelationshipTestUsers) THEN Ok(db, None)
    ELSE LET data == RelationshipTestUsers[i]
             got == User_get_or_create(db, data.username, data.email, "testpass123")
         IN  IF got.exc # "" THEN got
             ELSE LET made == profile_get_or_create_or_update(
                                  assign_to_group(got.db, got.pk, data.group),
                                  got.pk, data.role)
                  IN  IF made.exc # "" THEN made
                      ELSE relationship_create_test_users(made.db, i + 1)

\* create_custom_users: "except Exception" reports the error and goes on, so
\* the command itself never fails; date_of_birth is left at its default.
create_custom_users(db, email, username, superuser) ==
    IF superuser
    THEN Ok(create_superuser(db, email, "testpass123", username, "unset", "unset").db, None)
    ELSE LET made == create_user(db, email, "testpass123", username, "unset", "unset")
         IN  IF made.exc # "" THEN Ok(made.db, None)
             ELSE Ok(UserProfile_create(made.db, made.pk, "member").db, None)

\* groups_data of bookshelf's setup_groups, in the order of the dict.
BookshelfGroups ==
    <<[name |-> "Viewers", permissions |-> <<Perm("bookshelf", "can_view")>>],
      [name |-> "Editors",
       permissions |-> <<Perm("bookshelf", "can_view"), Perm("bookshelf", "can_create"),
                         Perm("bookshelf", "can_edit")>>],
      [name |-> "Admins",
       permissions |-> <<Perm("bookshelf", "can_view"), Perm("bookshelf", "can_create"),
                         Perm("bookshelf", "can_edit"), Perm("bookshelf", "can_delete")>>]>>

\* groups_data of relationship_app's setup_groups.
RelationshipGroups ==
    <<[name |-> "Viewers",
       permissions |-> <<Perm("relationship_app", "can_view_book"),
                         Perm("relationship_app", "can_view_author")>>],
      [name |-> "Editors",
       permissions |-> <<Perm("relationship_app", "can_view_book"),
                         Perm("relationship_app", "can_create_book"),
                         Perm("relationship_app", "can_edit_book"),
                         Perm("relationship_app", "can_view_author"),
                         Perm("relationship_app", "can_create_author"),
                         Perm("relationship_app", "can_edit_author")>>],
      [name |-> "Admins",
       permissions |-> <<Perm("relationship_app", "can_view_book"),
                         Perm("relationship_app", "can_create_book"),
                         Perm("relationship_app", "can_edit_book"),
                         Perm("relationship_app", "can_delete_book"),
                         Perm("relationship_app", "can_view_author"),
                         Perm("relationship_app", "can_create_author"),
                         Perm("relationship_app", "can_edit_author"),
                         Perm("relationship_app", "can_delete_author")>>]>>

\* The inner loop of setup_groups: Permission.objects.get(codename=) is given
\* what follows the last dot of the key and looks it up in every app; a
\* missing row is reported and skipped, and MultipleObjectsReturned is not
\* caught.
RECURSIVE add_permissions(_, _, _, _)
add_permissions(db, group, codenames, i) ==
    IF i > Len(codenames) THEN Ok(db, None)
    ELSE LET rows == {p \in db.permissions : p.codename = codenames[i].codename}
         IN  IF rows = {} THEN add_permissions(db, group, codenames, i + 1)
             ELSE IF Cardinality(rows) > 1 THEN Fail("MultipleObjectsReturned", db)
             ELSE add_permissions([db EXCEPT !.groups[group] = @ \cup rows],
                                  group, codenames, i + 1)

\* setup_groups without group.permissions.clear().
RECURSIVE setup_groups_NoClear(_, _, _)
setup_groups_NoClear(db, groups_data, i) ==
    IF i > Len(groups_data) THEN Ok(db, None)
    ELSE LET data == groups_data[i]
             got == [db EXCEPT !.groups =
                        [g \in DOMAIN db.groups \cup {data.name} |->
                            IF g \in DOMAIN db.groups THEN db.groups[g] ELSE {}]]
             added == add_permissions(got, data.name, data.permissions, 1)
         IN  IF added.exc # "" THEN added
             ELSE setup_groups_NoClear(added.db, groups_data, i + 1)

\* setup_groups, from the i-th group of groups_data on: Group get_or_create,
\* permissions.clear() and the permissions of the list.
RECURSIVE setup_groups(_, _, _)
setup_groups(db, groups_data, i) ==
    IF i > Len(groups_data) THEN Ok(db, None)
    ELSE LET data == groups_data[i]
             cleared == [db EXCEPT !.groups =
                            [g \in DOMAIN db.groups \cup {data.name} |->
                                IF g = data.name THEN {} ELSE db.groups[g]]]
             added == add_permissions(cleared, data.name, data.permissions, 1)
         IN  IF added.exc # "" THEN added
             ELSE setup_groups(added.db, groups_data, i + 1)

\* A management command ran: the tables are as it left them, and its name
\* and exit are what its caller sees.
Run(command, result) ==
    /\ Len(ran) < MaxRuns
    /\ ran' = Append(ran, command)
    /\ users' = result.db.users
    /\ user_groups' = result.db.user_groups
    /\ user_permissions' = result.db.user_permissions
    /\ permissions' = result.db.permissions
    /\ groups' = result.db.groups
    /\ profiles' = result.db.profiles
    /\ response' = [NoResponse EXCEPT !.view = command, !.exc = result.exc]
    /\ UNCHANGED stores

BookshelfSetupGroups ==
    Run("bookshelf.setup_groups", setup_groups(Db, BookshelfGroups, 1))

BookshelfCreateTestUsers ==
    Run("bookshelf.create_test_users", bookshelf_create_test_users(Db, 1))

RelSetupGroups ==
    Run("relationship_app.setup_groups", setup_groups(Db, RelationshipGroups, 1))

RelCreateTestUsers ==
    Run("relationship_app.create_test_users", relationship_create_test_users(Db, 1))

CustomUserOptions ==
    {[email |-> "test@example.com", username |-> "testuser", superuser |-> FALSE],
     [email |-> "root@EXAMPLE.com", username |-> "root", superuser |-> TRUE],
     [email |-> "editor@example.com", username |-> "editor", superuser |-> FALSE],
     [email |-> "ed@example.com", username |-> "editor_user", superuser |-> FALSE],
     [email |-> "", username |-> "nobody", superuser |-> FALSE]}

RelCreateCustomUsers ==
    \E o \in CustomUserOptions :
        Run("relationship_app.create_custom_users",
            create_custom_users(Db, o.email, o.username, o.superuser))

\* A UserProfile is created for a user (UserProfileAdmin's add form, or
\* UserProfile.objects.create in a shell).
CreateProfile ==
    \E u \in UserIds, role \in RoleNames :
        LET made == UserProfile_create(Db, u, role)
        IN  /\ Len(ran) < MaxRuns
            /\ ran' = Append(ran, "UserProfile.create")
            /\ profiles' = made.db.profiles
            /\ response' = [NoResponse EXCEPT !.view = "UserProfile.create",
                                              !.user = u, !.exc = made.exc]
            /\ UNCHANGED <<users, user_groups, user_permissions, permissions, groups,
                           stores>>

\* A database just migrated: the Permission rows of the models, and nothing else.
InitFresh ==
    /\ users = <<>>
    /\ user_groups = <<>>
    /\ user_permissions = <<>>
    /\ permissions = ModelPermissions
    /\ groups = [g \in {} |-> {}]
    /\ profiles = <<>>
    /\ InitStores

NextProv ==
    \/ BookshelfSetupGroups \/ BookshelfCreateTestUsers
    \/ RelSetupGroups \/ RelCreateTestUsers \/ RelCreateCustomUsers
    \/ CreateProfile

SpecProv == InitFresh /\ [][NextProv]_vars

-----------------------------------------------------------------------------
(* The user manager, called as the tests of the user model call it          *)

\* A call of a method of the manager: the tables are as it left them; the
\* response names the method, its arguments, the exception it raised and the
\* pk of the user it returned.
Call(method, args, result) ==
    /\ Len(ran) < MaxRuns
    /\ ran' = Append(ran, method)
    /\ users' = result.db.users
    /\ user_groups' = result.db.user_groups
    /\ user_permissions' = result.db.user_permissions
    /\ permissions' = result.db.permissions
    /\ groups' = result.db.groups
    /\ profiles' = result.db.profiles
    /\ response' = [NoResponse EXCEPT !.view = method, !.exc = result.exc,
                                      !.user = result.pk, !.context = args]
    /\ UNCHANGED stores

\* The arguments the manager is called with: two emails that differ in the
\* case of the domain only and the empty one among them.
CallEmails == {"", "ann@example.com", "root@example.com", "root@EXAMPLE.com"}
CallUsernames == {"ann", "root"}
CallPasswords == {"testpass123", NoPassword}

CallArgs(flags) ==
    [email : CallEmails, username : CallUsernames, password : CallPasswords,
     is_staff : flags, is_superuser : flags]

\* User.objects.create_user(email=, username=, password=), with no flag or
\* with is_staff=True.
CreateUser ==
    \E a \in CallArgs({"unset", "True"}) :
        /\ a.is_superuser = "unset"
        /\ Call("create_user", a,
                create_user(Db, a.email, a.password, a.username,
                            a.is_staff, a.is_superuser))

\* User.objects.create_superuser(email=, username=, password=), with any flags.
CreateSuperuser ==
    \E a \in CallArgs(Flags) :
        Call("create_superuser", a,
             create_superuser(Db, a.email, a.password, a.username,
                              a.is_staff, a.is_superuser))

NextUsers == CreateUser \/ CreateSuperuser

SpecUsers == InitFresh /\ [][NextUsers]_vars

-----------------------------------------------------------------------------
(* The bookshelf views, asked by every kind of user the manager can make    *)

\* The fixture users and, made by create_superuser with no flag given, root.
WithSuperuser ==
    create_superuser([users |-> FixtureUsers,
                      user_groups |-> <<{"Viewers"}, {"Editors"}, {"Admins"}>>,
                      user_permissions |-> <<{}, {}, {}>>,
                      permissions |-> ModelPermissions,
                      groups |-> FixtureGroups({}),
                      profiles |-> <<>>],
                     "root@EXAMPLE.com", "rootpass123", "root", "unset", "unset").db

\* A superuser of the Admins group whose is_active the admin site has unset.
FormerAdmin ==
    UserRow("former", "former@test.com", make_password("testpass123"), FALSE, TRUE, TRUE)

\* root holds no grant and belongs to no group; the gate rows of bookshelf
\* exist or not, and where they exist the first user may hold a direct grant.
InitShelf ==
    /\ users = Append(WithSuperuser.users, FormerAdmin)
    /\ user_groups = Append(WithSuperuser.user_groups, {"Admins"})
    /\ \E gate_apps \in {{}, {"bookshelf"}} :
        /\ permissions =
            ModelPermissions \cup {Perm(a, c) : a \in gate_apps, c \in GateCodenames}
        /\ groups = FixtureGroups(gate_apps)
        /\ \E direct \in SUBSET {Perm(a, "can_delete") : a \in gate_apps} :
            user_permissions = <<direct, {}, {}, {}, {}>>
    /\ profiles = <<>>
    /\ InitStores

NextShelf ==
    \/ ShelfBookList \/ ShelfListBooks \/ ShelfAddBook \/ ShelfEditBook
    \/ ShelfDeleteBook \/ ShelfBookDetail \/ ShelfUserDashboard

SpecShelf == InitShelf /\ [][NextShelf]_vars

-----------------------------------------------------------------------------
(* bookshelf: books lent to users through add_book and edit_book            *)

\* Forms that name a borrower or none, under two titles, and one left blank.
LoanForms ==
    {ShelfData(t, "Herbert", "2000", b) : t \in {"Dune", "Emma"}, b \in {None, 1, 2}}
    \cup {ShelfData("", "Herbert", "2000", None)}

\* The requests come from editor, of the group Editors, and from viewer.
LoanRequests(pks) ==
    {Request(u, m, TRUE, pk, IF m = "POST" THEN form ELSE NoForm) :
        u \in {1, 2}, m \in {"GET", "POST"}, pk \in pks, form \in LoanForms}

\* The server sends the view's response and commits what the view wrote; the
\* form data of the request is kept beside the response.
ServeLoan(request, outcome) ==
    /\ outcome.next_pk.book <= MaxLoans + 1
    /\ response' = outcome.response
    /\ books' = outcome.books
    /\ next_pk' = outcome.next_pk
    /\ posted' = request.form
    /\ UNCHANGED <<auth, rbooks, authors, ran, api_books, api_authors, api_next_pk>>

LoanAddBook ==
    \E r \in LoanRequests({0}) : ServeLoan(r, bookshelf_add_book(r))

LoanEditBook ==
    \E r \in LoanRequests({0}),
       segment \in {t \in DOMAIN int_converter :
                        int_converter[t] >= 1 /\ int_converter[t] <= MaxLoans} :
        ServeLoan(r, path_int("bookshelf.edit_book", r, segment,
                              bookshelf_edit_book(ForSegment(r, segment))))

\* The users and groups of SecurityTestCase.setUp, the gate rows of bookshelf
\* in the Permission table, and no book.
InitLoans ==
    /\ users = FixtureUsers
    /\ user_groups = <<{"Viewers"}, {"Editors"}, {"Admins"}>>
    /\ user_permissions = <<{}, {}, {}>>
    /\ permissions = ModelPermissions \cup {Perm("bookshelf", c) : c \in GateCodenames}
    /\ groups = FixtureGroups({"bookshelf"})
    /\ profiles = <<>>
    /\ InitStores

NextLoans == LoanAddBook \/ LoanEditBook

SpecLoans == InitLoans /\ [][NextLoans]_vars

-----------------------------------------------------------------------------
(* django-models: the post_save handlers of relationship_app/signals.py     *)

\* UserProfile.objects.create(user=instance) of django-models: the profile
\* relation is one-to-one and the role of a new profile is the default one.
signals_UserProfile_create(db, instance) == UserProfile_create(db, instance, "member")

\* create_user_profile without the test of created.
create_user_profile_Always(db, instance, created) ==
    signals_UserProfile_create(db, instance)

\* create_user_profile(sender, instance, created)
create_user_profile(db, instance, created) ==
    IF created THEN signals_UserProfile_create(db, instance) ELSE Ok(db, None)

\* hasattr(instance, 'userprofile'): the reverse accessor finds a row.
has_userprofile(db, instance) ==
    \E i \in 1 .. Len(db.profiles) : db.profiles[i].user = instance

\* save_user_profile(sender, instance): the profile found is saved with the
\* fields it was read with; where there is none, get_or_create makes it.
save_user_profile(db, instance) ==
    IF has_userprofile(db, instance) THEN Ok(db, None)
    ELSE signals_UserProfile_create(db, instance)

\* post_save.send(sender=User): the receivers in the order they were
\* connected; an exception of a receiver ends the send.
post_save(db, instance, created) ==
    LET first == create_user_profile(db, instance, created)
    IN  IF first.exc # "" THEN first ELSE save_user_profile(first.db, instance)

\* The names UserCreationForm is posted with, in turn.
RegisterNames == <<"ann", "bob", "cy", "dee", "eve">>

\* register: form.save() of a valid UserCreationForm inserts the user and
\* sends post_save with created=True.
signals_register(db, username) ==
    LET made == [db EXCEPT !.users = Append(@, UserRow(username, "",
                                                make_password("testpass123"),
                                                TRUE, FALSE, FALSE)),
                           !.user_groups = Append(@, {}),
                           !.user_permissions = Append(@, {})]
    IN  post_save(made, Len(made.users), TRUE)

\* A step of the signals specification: the tables are as the operation left
\* them and the response names it, the user it was about and its exception.
Signalled(operation, user, result) ==
    /\ Len(ran) < MaxSaved
    /\ ran' = Append(ran, operation)
    /\ users' = result.db.users
    /\ user_groups' = result.db.user_groups
    /\ user_permissions' = result.db.user_permissions
    /\ profiles' = result.db.profiles
    /\ response' = [NoResponse EXCEPT !.view = operation, !.user = user,
                                      !.exc = result.exc]
    /\ UNCHANGED <<permissions, groups, stores>>

SignalsRegister ==
    \E n \in DOMAIN RegisterNames :
        /\ n = Len(users)
        /\ Signalled("relationship_app.register", Len(users) + 1,
                     signals_register(Db, RegisterNames[n]))

\* user.save() of a stored user (the login's update of last_login, the change
\* form of the admin site): post_save is sent with created=False.
SignalsSaveUser ==
    \E u \in UserIds : Signalled("User.save", u, post_save(Db, u, FALSE))

\* The role of a profile is reassigned.
SignalsAssignRole ==
    \E i \in 1 .. Len(profiles), role \in RoleNames :
        /\ profiles[i].role # role
        /\ Signalled("UserProfile.save", profiles[i].user,
                     Ok([Db EXCEPT !.profiles[i].role = role], i))

\* One user made before the handlers were connected, with a profile of any
\* role or none.
InitSignals ==
    /\ users = <<UserRow("old", "", make_password("testpass123"), TRUE, FALSE, FALSE)>>
    /\ user_groups = <<{}>>
    /\ user_permissions = <<{}>>
    /\ permissions = {}
    /\ groups = [g \in {} |-> {}]
    /\ \E held \in {<<>>} \cup {<<[user |-> 1, role |-> r]>> : r \in RoleNames} :
        profiles = held
    /\ InitStores

NextSignals == SignalsRegister \/ SignalsSaveUser \/ SignalsAssignRole

SpecSignals == InitSignals /\ [][NextSignals]_vars

-----------------------------------------------------------------------------
(* django_blog: registration and profile                                    *)

\* The data of RegisterForm; ProfileForm carries its first two fields.
RegisterData(username, email, password1, password2) ==
    [username |-> username, email |-> email, password1 |-> password1,
     password2 |-> password2]

\* The rows of the table, other than row except, that hold value in field.
holders(table, field, value, except) ==
    {i \in 1 .. Len(table) : i # except /\ table[i][field] = value}

\* RegisterForm.clean_email: "raise forms.ValidationError()(...)" calls
\* ValidationError without its message, which is a TypeError.
clean_email(table, email) ==
    IF holders(table, "email", email, None) # {} THEN "TypeError" ELSE ""

\* RegisterForm.is_valid(): the fields are cleaned in the order of Meta.fields;
\* a ValidationError is kept as the error of its field, any other exception
\* leaves is_valid. clean_email runs only for an email its field accepted.
RegisterForm_is_valid(table, form) ==
    IF form.email # "" /\ clean_email(table, form.email) # ""
    THEN [exc |-> clean_email(table, form.email), errors |-> {}]
    ELSE [exc |-> "",
          errors |->
            {f \in {"username"} :
                form.username = "" \/ holders(table, "username", form.username, None) # {}}
            \cup {f \in {"email"} : form.email = ""}
            \cup {f \in {"password2"} : form.password2 # form.password1}]

\* ProfileForm.is_valid() for the user instance: username and email are
\* required and unique among the other users.
ProfileForm_errors(table, form, instance) ==
    {f \in {"username"} :
        form.username = "" \/ holders(table, "username", form.username, instance) # {}}
    \cup {f \in {"email"} :
        form.email = "" \/ holders(table, "email", form.email, instance) # {}}

BlogOutcome(resp, table) == [response |-> resp, users |-> table]

\* register
blog_register(request) ==
    LET view == "blog.register"
        checked == RegisterForm_is_valid(users, request.form)
    IN  IF request.method # "POST"
        THEN BlogOutcome(Response(view, request, 200, "", ""), users)
        ELSE IF checked.exc # ""
        THEN BlogOutcome(Response(view, request, 500, "", checked.exc), users)
        ELSE IF checked.errors # {}
        THEN BlogOutcome([Response(view, request, 200, "", "")
                            EXCEPT !.context = checked.errors], users)
        ELSE BlogOutcome(Response(view, request, 302, "login", ""),
                         Append(users, UserRow(request.form.username, request.form.email,
                                               make_password(request.form.password1),
                                               TRUE, FALSE, FALSE)))

\* profile
blog_profile(request) ==
    LET view == "blog.profile"
        errors == ProfileForm_errors(users, request.form, request.user)
    IN  IF ~is_authenticated(request.user)
        THEN BlogOutcome(Response(view, request, 302, "login", ""), users)
        ELSE IF request.method # "POST"
        THEN BlogOutcome(Response(view, request, 200, "", ""), users)
        ELSE IF errors # {}
        THEN BlogOutcome([Response(view, request, 200, "", "") EXCEPT !.context = errors],
                         users)
        ELSE BlogOutcome(Response(view, request, 302, "profile", ""),
                         [users EXCEPT ![request.user].username = request.form.username,
                                       ![request.user].email = request.form.email])

BlogNames == {"", "ann", "bob", "cy"}
BlogEmails == {"", "ann@example.com", "bob@example.com", "cy@example.com"}

RegisterForms ==
    {RegisterData(n, e, "testpass123", p) :
        n \in BlogNames, e \in BlogEmails, p \in {"testpass123", "testpass124"}}

ProfileForms == {RegisterData(n, e, "", "") : n \in BlogNames, e \in BlogEmails}

\* The server sends the view's response and commits the users table; the
\* form data of the request is kept beside the response.
ServeBlog(request, outcome) ==
    /\ Len(outcome.users) <= MaxBlogUsers
    /\ response' = outcome.response
    /\ users' = outcome.users
    /\ user_groups' = [i \in DOMAIN outcome.users |-> {}]
    /\ user_permissions' = [i \in DOMAIN outcome.users |-> {}]
    /\ posted' = request.form
    /\ UNCHANGED <<permissions, groups, profiles, books, rbooks, authors, next_pk, ran,
                   api_books, api_authors, api_next_pk>>

BlogRegister ==
    \E m \in {"GET", "POST"}, form \in RegisterForms :
        LET r == Request(Anonymous, m, TRUE, None, IF m = "POST" THEN form ELSE NoForm)
        IN  ServeBlog(r, blog_register(r))

BlogProfile ==
    \E u \in Principals, m \in {"GET", "POST"}, form \in ProfileForms :
        LET r == Request(u, m, TRUE, None, IF m = "POST" THEN form ELSE NoForm)
        IN  ServeBlog(r, blog_profile(r))

\* A blog with no user yet.
InitBlog ==
    /\ users = <<>>
    /\ user_groups = <<>>
    /\ user_permissions = <<>>
    /\ permissions = {}
    /\ groups = [g \in {} |-> {}]
    /\ profiles = <<>>
    /\ InitStores

NextBlog == BlogRegister \/ BlogProfile

SpecBlog == InitBlog /\ [][NextBlog]_vars

-----------------------------------------------------------------------------
(* advanced-api-project: the Book serializer and the generic views          *)

ApiBook(title, year, author) ==
    [title |-> title, publication_year |-> year, author |-> author]

\* A field the payload does not carry.
Omitted == "omitted"

\* The JSON of a request: the text of its title and of its publication_year
\* and the pk of its author, None where the payload carries none.
Payload(title, year, author) ==
    [title |-> title, publication_year |-> year, author |-> author]

NoData == Payload(Omitted, Omitted, None)

\* Where titles stand in the order of the database's text comparison.
title_order == [t \in {"1984", "Animal Farm"} |-> IF t = "1984" THEN 1 ELSE 2]

\* The message of BookSerializer.validate.
YearMessage == "Publication year must be between 1000 and 2024"

\* The fields of the serializer that reject the payload: a required field
\* left out of a full update, a blank title, a publication_year that is no
\* integer, an author that is no stored Author.
field_errors(data, partial) ==
    {f \in {"title"} :
        IF data.title = Omitted THEN ~partial ELSE data.title = ""}
    \cup {f \in {"publication_year"} :
        IF data.publication_year = Omitted THEN ~partial
        ELSE ~IsInteger(data.publication_year)}
    \cup {f \in {"author"} :
        IF data.author = None THEN ~partial ELSE data.author \notin DOMAIN api_authors}

\* BookSerializer.validate without its lower limit.
validate_NoLowerLimit(data) ==
    IF data.publication_year = Omitted THEN "KeyError"
    ELSE IF ToInteger(data.publication_year) > 2024 THEN "ValidationError"
    ELSE ""

\* BookSerializer.validate(attrs), called once every field is accepted:
\* attrs holds the fields the payload carries.
validate(data) ==
    IF data.publication_year = Omitted THEN "KeyError"
    ELSE IF ToInteger(data.publication_year) < 1000
            \/ ToInteger(data.publication_year) > 2024 THEN "ValidationError"
    ELSE ""

\* serializer.is_valid(raise_exception=True): the exception raised, with the
\* errors it carries.
is_valid(data, partial) ==
    IF field_errors(data, partial) # {}
    THEN [exc |-> "ValidationError", errors |-> field_errors(data, partial)]
    ELSE IF validate(data) = "ValidationError"
    THEN [exc |-> "ValidationError", errors |-> {YearMessage}]
    ELSE [exc |-> validate(data), errors |-> {}]

\* serializer.save(): the row with the fields of the payload set.
saved(row, data) ==
    ApiBook(IF data.title = Omitted THEN row.title ELSE data.title,
            IF data.publication_year = Omitted THEN row.publication_year
            ELSE ToInteger(data.publication_year),
            IF data.author = None THEN row.author ELSE data.author)

\* The query string of a list request: author and publication_year filter
\* values ("" and None where there is none) and the ordering parameter.
Query(author, year, ordering) ==
    [author |-> author, publication_year |-> year, ordering |-> ordering]

NoQuery == Query(None, "", <<>>)

ApiRequest(user, method, pk, data, query) ==
    [user |-> user, method |-> method, pk |-> pk, data |-> data, query |-> query]

\* The response of the API: its status, the exception behind it and its
\* data (the pks of the books listed, in order, and the errors reported).
ApiResponse(view, request, status, exc, listed, errors) ==
    [view |-> view, user |-> request.user, method |-> request.method,
     pk |-> request.pk, data |-> request.data, query |-> request.query,
     status |-> status, exc |-> exc, listed |-> listed, errors |-> errors]

ApiOutcome(resp, table, next) ==
    [response |-> resp, api_books |-> table, api_next_pk |-> next]

ApiUnchanged(resp) == ApiOutcome(resp, api_books, api_next_pk)

\* permissions.IsAuthenticated
IsAuthenticated(request) == is_authenticated(request.user)

\* permissions.IsAuthenticatedOrReadOnly
IsAuthenticatedOrReadOnly(request) ==
    request.method \in {"GET", "HEAD", "OPTIONS"} \/ is_authenticated(request.user)

\* The status of a request no authentication class accepted: the first
\* authentication class of the project's settings sends a WWW-Authenticate
\* header, which makes it 401.
not_authenticated_status == 401

\* APIView.dispatch with get_object called before the permissions are checked.
dispatch_LookupFirst(view, request, permitted, methods, detail, handler) ==
    IF detail /\ request.pk \notin DOMAIN api_books
    THEN ApiUnchanged(ApiResponse(view, request, 404, "Http404", <<>>, {}))
    ELSE IF ~permitted
    THEN ApiUnchanged(ApiResponse(view, request,
            IF is_authenticated(request.user) THEN 403 ELSE not_authenticated_status,
            IF is_authenticated(request.user) THEN "PermissionDenied"
            ELSE "NotAuthenticated", <<>>, {}))
    ELSE IF request.method \notin methods
    THEN ApiUnchanged(ApiResponse(view, request, 405, "MethodNotAllowed", <<>>, {}))
    ELSE handler

\* APIView.dispatch: initial() checks the permissions, then the handler of
\* the method is looked up, and the handler of a detail view calls get_object.
dispatch(view, request, permitted, methods, detail, handler) ==
    IF ~permitted
    THEN ApiUnchanged(ApiResponse(view, request,
            IF is_authenticated(request.user) THEN 403 ELSE not_authenticated_status,
            IF is_authenticated(request.user) THEN "PermissionDenied"
            ELSE "NotAuthenticated", <<>>, {}))
    ELSE IF request.method \notin methods
    THEN ApiUnchanged(ApiResponse(view, request, 405, "MethodNotAllowed", <<>>, {}))
    ELSE IF detail /\ request.pk \notin DOMAIN api_books
    THEN ApiUnchanged(ApiResponse(view, request, 404, "Http404", <<>>, {}))
    ELSE handler

\* The response to an exception of the serializer: 400 for a
\* ValidationError, 500 for any other.
invalid(view, request, checked) ==
    ApiUnchanged(ApiResponse(view, request,
        IF checked.exc = "ValidationError" THEN 400 ELSE 500,
        checked.exc, <<>>, checked.errors))

\* DetailView (RetrieveAPIView)
api_DetailView(request) ==
    LET view == "api.DetailView" IN
    dispatch(view, request, IsAuthenticatedOrReadOnly(request), {"GET"}, TRUE,
        ApiUnchanged(ApiResponse(view, request, 200, "", <<request.pk>>, {})))

\* CreateView (CreateAPIView)
api_CreateView(request) ==
    LET view == "api.CreateView"
        checked == is_valid(request.data, FALSE)
    IN  dispatch(view, request, IsAuthenticated(request), {"POST"}, FALSE,
            IF checked.exc # "" THEN invalid(view, request, checked)
            ELSE ApiOutcome(ApiResponse(view, request, 201, "", <<api_next_pk>>, {}),
                            With(api_books, api_next_pk,
                                 saved(ApiBook("", 0, None), request.data)),
                            api_next_pk + 1))

\* UpdateView (UpdateAPIView): PUT, and PATCH, which is a partial update.
api_UpdateView(request) ==
    LET view == "api.UpdateView"
        checked == is_valid(request.data, request.method = "PATCH")
    IN  dispatch(view, request, IsAuthenticated(request), {"PUT", "PATCH"}, TRUE,
            IF checked.exc # "" THEN invalid(view, request, checked)
            ELSE ApiOutcome(ApiResponse(view, request, 200, "", <<request.pk>>, {}),
                            With(api_books, request.pk,
                                 saved(api_books[request.pk], request.data)),
                            api_next_pk))

\* Book.objects.all().delete() in the place of instance.delete().
destroyed_All(table, pk) == [k \in {} |-> table[k]]

\* instance.delete(): the Book table without the row pk and every other row
\* as it was.
destroyed(table, pk) == Without(table, pk)

\* DeleteView (DestroyAPIView)
api_DeleteView(request) ==
    LET view == "api.DeleteView" IN
    dispatch(view, request, IsAuthenticated(request), {"DELETE"}, TRUE,
        ApiOutcome(ApiResponse(view, request, 204, "", <<>>, {}),
                   destroyed(api_books, request.pk), api_next_pk))

\* An ordering term names a field, with "-" before it for descending.
term_field ==
    [t \in {"title", "-title", "publication_year", "-publication_year", "author"} |->
        CASE t \in {"title", "-title"} -> "title"
          [] t \in {"publication_year", "-publication_year"} -> "publication_year"
          [] OTHER -> "author"]

\* ordering_fields of ListView.
ordering_fields == {"publication_year", "title"}

\* OrderingFilter.remove_invalid_fields
remove_invalid_fields(terms) ==
    SelectSeq(terms, LAMBDA t : term_field[t] \in ordering_fields)

\* OrderingFilter.get_ordering without the fallback to the view's ordering.
get_ordering_NoDefault(terms) == remove_invalid_fields(terms)

\* OrderingFilter.get_ordering: the valid terms of the ordering parameter,
\* or the ordering of the view where none is left.
get_ordering(terms) ==
    IF remove_invalid_fields(terms) # <<>> THEN remove_invalid_fields(terms)
    ELSE <<"publication_year", "title">>

\* What ORDER BY compares of a row for a term.
sort_key(row, term) ==
    (IF term_field[term] = "title" THEN title_order[row.title]
     ELSE row.publication_year)
    * (IF term \in {"-title", "-publication_year"} THEN -1 ELSE 1)

\* Row a sorts strictly before row b under the terms from the i-th on.
RECURSIVE sorts_before(_, _, _, _)
sorts_before(a, b, terms, i) ==
    IF i > Len(terms) THEN FALSE
    ELSE IF sort_key(a, terms[i]) # sort_key(b, terms[i])
    THEN sort_key(a, terms[i]) < sort_key(b, terms[i])
    ELSE sorts_before(a, b, terms, i + 1)

\* The orders the database may return the rows pks in for ORDER BY terms:
\* rows the terms do not tell apart come in any order.
order_by(pks, terms) ==
    {listed \in [1 .. Cardinality(pks) -> pks] :
        /\ \A i, j \in DOMAIN listed : listed[i] = listed[j] => i = j
        /\ \A i, j \in DOMAIN listed :
            i < j => ~sorts_before(api_books[listed[j]], api_books[listed[i]], terms, 1)}

\* The filter values DjangoFilterBackend refuses: an author that is no stored
\* Author, a publication_year that is no number.
filter_errors(query) ==
    {f \in {"author"} : query.author # None /\ query.author \notin DOMAIN api_authors}
    \cup {f \in {"publication_year"} :
            query.publication_year # "" /\ ~IsInteger(query.publication_year)}

\* DjangoFilterBackend.filter_queryset with filterset_fields author and
\* publication_year: the rows equal to every value given.
filter_queryset(query) ==
    {k \in DOMAIN api_books :
        /\ query.author # None => api_books[k].author = query.author
        /\ query.publication_year # "" =>
                api_books[k].publication_year = ToInteger(query.publication_year)}

\* ListView (ListAPIView): the outcomes of a request, one for each order the
\* database may return.
api_ListView(request) ==
    LET view == "api.ListView" IN
    IF ~IsAuthenticatedOrReadOnly(request) \/ request.method # "GET"
    THEN {dispatch(view, request, IsAuthenticatedOrReadOnly(request), {"GET"}, FALSE,
                   ApiUnchanged(ApiResponse(view, request, 200, "", <<>>, {})))}
    ELSE IF filter_errors(request.query) # {}
    THEN {ApiUnchanged(ApiResponse(view, request, 400, "ValidationError", <<>>,
                                   filter_errors(request.query)))}
    ELSE {ApiUnchanged(ApiResponse(view, request, 200, "", listed, {})) :
            listed \in order_by(filter_queryset(request.query),
                                get_ordering(request.query.ordering))}

-----------------------------------------------------------------------------
(* The requests the API is driven with *)

\* Three books the serializer accepts, two of the same year and two by the
\* same author.
ValidPayloads ==
    {Payload("Animal Farm", "1000", 1), Payload("1984", "2024", 1),
     Payload("1984", "1000", 2)}

\* Complete payloads the serializer refuses: a year out of range or no
\* number, a blank title, an author that is not stored.
InvalidPayloads ==
    {Payload("Animal Farm", y, 1) : y \in {"0", "999", "2025", "invalid_year"}}
    \cup {Payload("", "1000", 1), Payload("Animal Farm", "1000", MaxApiBooks + 7)}

\* Payloads of a PATCH: the year alone, the title alone, nothing.
PartialPayloads ==
    {Payload(Omitted, "1000", None), Payload("1984", Omitted, None), NoData}

\* The pks asked for: those the table can hold and one it never holds.
ApiPks == 1 .. MaxApiBooks + 1

Queries ==
    {Query(a, y, o) :
        a \in {None, 1, MaxApiBooks + 7}, y \in {"", "1000", "invalid_year"},
        o \in {<<>>, <<"title">>, <<"publication_year">>, <<"-title">>, <<"author">>}}

\* The server sends the API's response and commits what the view wrote.
ApiServe(outcome) ==
    /\ outcome.api_next_pk <= MaxApiBooks + 1
    /\ response' = outcome.response
    /\ api_books' = outcome.api_books
    /\ api_next_pk' = outcome.api_next_pk
    /\ UNCHANGED <<auth, books, rbooks, authors, next_pk, ran, api_authors, posted>>

ApiList ==
    \E u \in Requesters, m \in {"GET", "DELETE"}, q \in Queries :
        /\ (m = "DELETE" \/ u # Anonymous) => q = NoQuery
        /\ \E outcome \in api_ListView(ApiRequest(u, m, None, NoData, q)) :
            ApiServe(outcome)

ApiDetail ==
    \E u \in Requesters, pk \in ApiPks :
        ApiServe(api_DetailView(ApiRequest(u, "GET", pk, NoData, NoQuery)))

ApiCreate ==
    \E u \in Requesters, d \in ValidPayloads \cup InvalidPayloads \cup {NoData} :
        ApiServe(api_CreateView(ApiRequest(u, "POST", None, d, NoQuery)))

ApiUpdate ==
    \E u \in Requesters, pk \in ApiPks,
       md \in ({"PUT"} \X (ValidPayloads \cup InvalidPayloads))
                \cup ({"PATCH"} \X PartialPayloads) :
        ApiServe(api_UpdateView(ApiRequest(u, md[1], pk, md[2], NoQuery)))

ApiDelete ==
    \E u \in Requesters, pk \in ApiPks, m \in {"DELETE", "GET"} :
        ApiServe(api_DeleteView(ApiRequest(u, m, pk, NoData, NoQuery)))

\* The database of the API's tests before any book: one user, two authors.
InitApi ==
    /\ users = <<UserRow("testuser", "", make_password("testpass123"),
                         TRUE, FALSE, FALSE)>>
    /\ user_groups = <<{}>>
    /\ user_permissions = <<{}>>
    /\ permissions = {}
    /\ groups = [g \in {} |-> {}]
    /\ profiles = <<>>
    /\ books = EmptyTable
    /\ rbooks = EmptyTable
    /\ authors = EmptyTable
    /\ next_pk = [book |-> 1, rbook |-> 1, author |-> 1]
    /\ response = NoResponse
    /\ ran = <<>>
    /\ api_books = EmptyTable
    /\ api_authors = [k \in {1, 2} |->
                        [name |-> IF k = 1 THEN "George Orwell" ELSE "J.K. Rowling"]]
    /\ api_next_pk = 1
    /\ posted = NoForm

NextApi == ApiList \/ ApiDetail \/ ApiCreate \/ ApiUpdate \/ ApiDelete

SpecApi == InitApi /\ [][NextApi]_vars

-----------------------------------------------------------------------------
(* Properties *)

PermissionGatedViews ==
    {"relationship_app.list_books", "relationship_app.add_book",
     "relationship_app.change_book", "relationship_app.delete_book",
     "relationship_app.list_authors", "relationship_app.add_author",
     "relationship_app.change_author", "relationship_app.delete_author",
     "bookshelf.book_list", "bookshelf.list_books", "bookshelf.add_book",
     "bookshelf.edit_book", "bookshelf.delete_book"}

RoleViews ==
    {"relationship_app.AdminView", "relationship_app.LibrarianView",
     "relationship_app.MemberView"}

\* The answer of a role predicate: False, returned and not raised.
ReturnsFalse(call) == call.exc = "" /\ call.value = FALSE

HasProfile(user) == \E i \in 1 .. Len(profiles) : profiles[i].user = user

\* C1: for the unauthenticated principal is_admin, is_librarian and is_member
\* return False without raising, and every permission-gated view answers it
\* with the 403 of PermissionDenied, whatever the tables hold.
C1_UnauthenticatedDenied ==
    /\ ReturnsFalse(is_admin(Anonymous))
    /\ ReturnsFalse(is_librarian(Anonymous))
    /\ ReturnsFalse(is_member(Anonymous))
    /\ (response.user = Anonymous /\ response.view \in RoleViews)
            => response.exc = "" /\ response.status = 302
    /\ (response.user = Anonymous /\ response.view \in PermissionGatedViews)
            => response.status = 403 /\ response.exc = "PermissionDenied"

\* An unauthenticated request for a book's deletion was refused while the
\* Permission table held the gate's row and a book was there to delete.
C1_Witness ==
    /\ response.user = Anonymous
    /\ response.view = "relationship_app.delete_book"
    /\ response.status = 403
    /\ Perm("relationship_app", "can_delete") \in permissions
    /\ rbooks # EmptyTable

\* C2: for an authenticated principal without a UserProfile row is_admin,
\* is_librarian and is_member each return False and raise nothing, so the
\* role views answer it with their refusal and never with a server error.
C2_NoProfileIsFalse ==
    \A u \in UserIds :
        ~HasProfile(u) =>
            /\ ReturnsFalse(is_admin(u))
            /\ ReturnsFalse(is_librarian(u))
            /\ ReturnsFalse(is_member(u))
            /\ (response.user = u /\ response.view \in RoleViews)
                    => response.exc = "" /\ response.status = 302

\* A logged-in user without a profile asked for the librarian view.
C2_Witness ==
    /\ response.user \in UserIds
    /\ ~HasProfile(response.user)
    /\ response.view = "relationship_app.LibrarianView"
    /\ response.status = 302

\* C3: for an authenticated principal whose profile stores role r, the
\* predicate of role q returns True iff r = q, so at most one of the three
\* predicates is True for any principal.
C3_ExactRoleMatch ==
    /\ \A i \in 1 .. Len(profiles) :
        LET u == profiles[i].user
            r == profiles[i].role
        IN  /\ is_admin(u).exc = "" /\ is_admin(u).value = (r = "admin")
            /\ is_librarian(u).exc = "" /\ is_librarian(u).value = (r = "librarian")
            /\ is_member(u).exc = "" /\ is_member(u).value = (r = "member")
    /\ \A u \in Principals :
        Cardinality({q \in RoleNames :
            CASE q = "admin" -> is_admin(u).value
              [] q = "librarian" -> is_librarian(u).value
              [] q = "member" -> is_member(u).value}) <= 1
    /\ \A i \in 1 .. Len(profiles) :
        (response.user = profiles[i].user /\ response.view \in RoleViews) =>
            (response.status # 302 <=>
                response.view = CASE profiles[i].role = "admin" -> "relationship_app.AdminView"
                                  [] profiles[i].role = "librarian" -> "relationship_app.LibrarianView"
                                  [] profiles[i].role = "member" -> "relationship_app.MemberView"
                                  [] OTHER -> "")

\* A user whose role is admin was let into the admin view, and another time
\* turned away from the member view.
C3_Witness ==
    /\ \E i \in 1 .. Len(profiles) :
        profiles[i].user = response.user /\ profiles[i].role = "admin"
    /\ response.view = "relationship_app.MemberView"
    /\ response.status = 302

\* The permissions a principal holds without being a superuser: its direct
\* grants and those of its groups.
Grants(u) == user_permissions[u] \cup group_permissions(u)

\* u is an active user, not a superuser, whose grants all come from its one
\* group, which holds exactly the bookshelf permissions of codenames.
OnlyGroupHolds(u, codenames) ==
    /\ users[u].is_active /\ ~users[u].is_superuser
    /\ user_permissions[u] = {}
    /\ \E g \in DOMAIN groups :
        user_groups[u] = {g} /\ groups[g] = {Perm("bookshelf", c) : c \in codenames}

\* C4: a principal whose grants all come from a group holding exactly
\* {can_view, can_create, can_edit} passes the gates of add_book and edit_book
\* and is refused by the gate of delete_book; one whose group holds just
\* can_view is let into book_list and answered 403 by add_book.
C4_GroupGrantsDecide ==
    \A u \in UserIds :
        /\ OnlyGroupHolds(u, {"can_view", "can_create", "can_edit"}) =>
            /\ has_perm(u, Perm("bookshelf", "can_edit"))
            /\ has_perm(u, Perm("bookshelf", "can_create"))
            /\ ~has_perm(u, Perm("bookshelf", "can_delete"))
            /\ (response.user = u /\ response.view \in {"bookshelf.add_book", "bookshelf.edit_book"})
                    => response.exc # "PermissionDenied"
            /\ (response.user = u /\ response.view = "bookshelf.delete_book")
                    => response.status = 403 /\ response.exc = "PermissionDenied"
        /\ OnlyGroupHolds(u, {"can_view"}) =>
            /\ (response.user = u /\ response.view = "bookshelf.book_list")
                    => response.status = 200
            /\ (response.user = u /\ response.view = "bookshelf.add_book")
                    => response.status = 403

\* An editor who had added a book was refused its deletion.
C4_Witness ==
    /\ response.user \in UserIds
    /\ OnlyGroupHolds(response.user, {"can_view", "can_create", "can_edit"})
    /\ response.view = "bookshelf.delete_book"
    /\ response.status = 403
    /\ books # EmptyTable

GuardedEntryPoints ==
    {"bookshelf.add_book", "bookshelf.edit_book", "bookshelf.delete_book",
     "relationship_app.add_book", "relationship_app.change_book",
     "relationship_app.delete_book", "relationship_app.add_author",
     "relationship_app.change_author", "relationship_app.delete_author"}

\* C6: a request that a guarded entry point refuses for want of the
\* permission leaves the books and the authors as they were: the check comes
\* before every step of the guarded operation.
C6_DeniedWritesNothing ==
    [][(response'.view \in GuardedEntryPoints /\ response'.exc = "PermissionDenied")
            => UNCHANGED <<books, rbooks, authors, next_pk>>]_vars

\* A user without can_delete was refused the deletion of a book in store.
C6_Witness ==
    /\ response.view = "relationship_app.delete_book"
    /\ response.exc = "PermissionDenied"
    /\ response.user \in UserIds
    /\ rbooks # EmptyTable

\* The role predicate in front of a role view.
RoleTest(view, user) ==
    CASE view = "relationship_app.AdminView" -> is_admin(user)
      [] view = "relationship_app.LibrarianView" -> is_librarian(user)
      [] view = "relationship_app.MemberView" -> is_member(user)

\* The last request was denied: its principal lacked the permission or the
\* role the entry point requires.
Denied ==
    \/ response.view \in PermissionGatedViews /\ response.exc = "PermissionDenied"
    \/ response.view \in RoleViews /\ ~RoleTest(response.view, response.user).value

\* C7: every denied request, to a permission-gated view or to a role-gated
\* one, by the anonymous principal or by a logged-in one, ends in the same
\* fixed forbidden outcome.
C7_DeniedIsForbidden ==
    Denied => response.status = 403 /\ response.location = ""

\* The role views and the dashboard only read the tables.
ReadOnlyViews == RoleViews \cup {"bookshelf.user_dashboard"}

\* What the last response of a read-only view says is what the predicate
\* behind it answers now.
SameAnswerAgain ==
    /\ (response.view \in RoleViews /\ response.exc = "") =>
            (response.status # 302) = RoleTest(response.view, response.user).value
    /\ (response.view = "bookshelf.user_dashboard" /\ response.status = 200) =>
            response.context =
                {c \in GateCodenames : has_perm(response.user, Perm("bookshelf", c))}

\* C8: evaluating a role predicate or a permission check changes no profile,
\* group, permission, user, book or author, and evaluating it again on the
\* unchanged tables gives the answer it gave.
C8_PureReads ==
    [][response'.view \in ReadOnlyViews =>
            /\ UNCHANGED <<auth, stores>>
            /\ SameAnswerAgain']_vars

\* A logged-in user without a profile was turned away from the admin view,
\* and nothing was written for it.
C8_Witness ==
    /\ response.view = "relationship_app.AdminView"
    /\ response.status = 302
    /\ response.user \in UserIds
    /\ ~HasProfile(response.user)

\* C5 (as the specification states it): on a database just migrated, once
\* bookshelf's setup_groups and then its create_test_users have run,
\* editor_user of the group Editors passes the can_edit gate and is refused
\* by the can_delete gate.
C5_EditorProvisioned ==
    ran = <<"bookshelf.setup_groups", "bookshelf.create_test_users">> =>
        \E u \in UserIds :
            /\ users[u].username = "editor_user"
            /\ "Editors" \in user_groups[u]
            /\ has_perm(u, Perm("bookshelf", "can_edit"))
            /\ ~has_perm(u, Perm("bookshelf", "can_delete"))

\* The permission keys a gate or a grant can name.
PermissionKeys == permissions \cup BookshelfGate \cup RelationshipGate

\* The gate of each permission-gated view of bookshelf.
ShelfGate ==
    [v \in {"bookshelf.book_list", "bookshelf.list_books", "bookshelf.add_book",
            "bookshelf.edit_book", "bookshelf.delete_book"} |->
        CASE v = "bookshelf.add_book" -> Perm("bookshelf", "can_create")
          [] v = "bookshelf.edit_book" -> Perm("bookshelf", "can_edit")
          [] v = "bookshelf.delete_book" -> Perm("bookshelf", "can_delete")
          [] OTHER -> Perm("bookshelf", "can_view")]

\* C9 (as the specification states it): for every principal and permission
\* key, the check of the gates is True iff the key is in the union of the
\* principal's direct grants and the grants of its groups, superusers that
\* hold no grant included.
C9_CheckIsGrantMembership ==
    /\ \A u \in UserIds, k \in PermissionKeys : has_perm(u, k) <=> k \in Grants(u)
    /\ \A k \in PermissionKeys : ~has_perm(Anonymous, k)
    /\ (response.view \in DOMAIN ShelfGate /\ response.user # Anonymous) =>
            (response.exc = "PermissionDenied"
                <=> ShelfGate[response.view] \notin Grants(response.user))
    /\ (response.view = "bookshelf.user_dashboard" /\ response.status = 200) =>
            response.context =
                {c \in GateCodenames : Perm("bookshelf", c) \in Grants(response.user)}

\* u is active and is a superuser or holds k directly or through a group.
Holds(u, k) ==
    users[u].is_active /\ (users[u].is_superuser \/ k \in Grants(u))

\* C9 (amended): for every principal and permission key, the check of the
\* gates is True iff the principal is an active user and is a superuser or
\* the key is in the union of its direct grants and the grants of its
\* groups; for the anonymous principal it is False.
C9_ActiveSuperuserOrGrant ==
    /\ \A u \in UserIds, k \in PermissionKeys : has_perm(u, k) <=> Holds(u, k)
    /\ \A k \in PermissionKeys : ~has_perm(Anonymous, k)
    /\ (response.view \in DOMAIN ShelfGate /\ response.user # Anonymous) =>
            (response.exc = "PermissionDenied"
                <=> ~Holds(response.user, ShelfGate[response.view]))
    /\ (response.view = "bookshelf.user_dashboard" /\ response.status = 200) =>
            response.context =
                {c \in GateCodenames : Holds(response.user, Perm("bookshelf", c))}

\* The superuser create_superuser made, holding no grant, was let through
\* the can_delete gate.
C9_Witness ==
    /\ response.view = "bookshelf.delete_book"
    /\ response.user \in UserIds
    /\ users[response.user].username = "root"
    /\ Grants(response.user) = {}
    /\ response.exc # "PermissionDenied"
    /\ response.status # 403

\* The rows of UserProfile that belong to user u.
ProfilesOf(u) == {i \in 1 .. Len(profiles) : profiles[i].user = u}

\* Every profile row stays, with its user; its role changes only in a run of
\* relationship_app's create_test_users.
RolesKept ==
    /\ Len(profiles') >= Len(profiles)
    /\ \A i \in 1 .. Len(profiles) :
        /\ profiles'[i].user = profiles[i].user
        /\ profiles'[i].role # profiles[i].role =>
                ran' = Append(ran, "relationship_app.create_test_users")

\* The creation of a profile for a user who has one fails.
SecondProfileFails ==
    (response'.view = "UserProfile.create" /\ ProfilesOf(response'.user) # {}) =>
        response'.exc = "IntegrityError" /\ profiles' = profiles

\* C10: through any sequence of create_test_users and create_custom_users
\* runs and profile creations, each user has at most one UserProfile; creating
\* a second profile for a user fails and leaves the table unchanged; and a
\* role changes only where create_test_users reassigns it.
C10_OneProfilePerUser ==
    /\ [](\A u \in UserIds : Cardinality(ProfilesOf(u)) <= 1)
    /\ [][RolesKept /\ SecondProfileFails]_vars

\* A second profile was refused to editor_user, whose role create_test_users
\* had set anew from member to librarian.
C10_Witness ==
    /\ Len(ran) = 3
    /\ ran[1] = "relationship_app.create_custom_users"
    /\ ran[2] = "relationship_app.create_test_users"
    /\ response.view = "UserProfile.create"
    /\ response.exc = "IntegrityError"
    /\ response.user \in UserIds
    /\ users[response.user].username = "editor_user"
    /\ \E i \in ProfilesOf(response.user) : profiles[i].role = "librarian"

\* The views of bookshelf under @require_http_methods(["GET", "POST"]).
MethodRestrictedViews ==
    {"bookshelf.add_book", "bookshelf.edit_book", "bookshelf.delete_book"}

\* The response answers a request that the URL resolver handed to
\* a restricted view, sent with a method other than GET and POST by a
\* logged-in user who holds the permission of the view's gate.
OtherMethodByHolder ==
    /\ response.view \in MethodRestrictedViews
    /\ response.method \notin {"GET", "POST"}
    /\ response.user # Anonymous
    /\ has_perm(response.user, ShelfGate[response.view])

C12_PostWithoutTokenIs403 ==
    [][(response'.view = "bookshelf.add_book" /\ response'.method = "POST"
            /\ ~response'.csrf) =>
        /\ response'.status = 403
        /\ books' = books /\ next_pk' = next_pk
        /\ (response'.user # Anonymous
                /\ has_perm(response'.user, Perm("bookshelf", "can_create")))
            => response'.exc = "CsrfFailure"]_vars

\* A holder of can_create posted a form to add_book without a token and was
\* answered 403 by the CSRF check.
C12_Witness ==
    /\ response.view = "bookshelf.add_book"
    /\ response.method = "POST" /\ ~response.csrf
    /\ response.user # Anonymous
    /\ has_perm(response.user, Perm("bookshelf", "can_create"))
    /\ response.status = 403 /\ response.exc = "CsrfFailure"

\* The views of bookshelf whose URL has a pk segment.
PkViews == {"bookshelf.book_detail", "bookshelf.edit_book", "bookshelf.delete_book"}

\* C13 (as the specification states it): a request to book_detail, edit_book
\* or delete_book whose pk is not a non-empty string of digits is answered
\* with a redirect (302) to the book list and raises no error.
C13_BadPkRedirects ==
    (response.route \in PkViews /\ response.url_pk \notin DOMAIN int_converter) =>
        /\ response.status = 302
        /\ response.location = "book_list"
        /\ response.exc = ""

\* C14 (as the specification states it): every stored book of bookshelf has a
\* publication_year between 1000 and 2024 inclusive.
C14_YearsInRange ==
    \A k \in DOMAIN books :
        books[k].publication_year >= 1000 /\ books[k].publication_year <= 2024

\* The step is a call of the manager's method that returned a user.
Made(method) ==
    /\ response'.view = method
    /\ response'.exc = ""

\* The row of the user the call returned.
MadeUser == users'[response'.user]

\* The step is a call of create_superuser with a flag that is not True.
FlagNotTrue ==
    /\ response'.view = "create_superuser"
    /\ response'.context.is_staff = "False" \/ response'.context.is_superuser = "False"

\* C15: create_user called without privilege flags yields a user with
\* is_staff and is_superuser False whose stored password verifies against
\* the password given; create_superuser called without them yields an active
\* staff superuser, and called with is_staff or is_superuser other than True
\* it raises ValueError and creates no user.
C15_ManagerDefaults ==
    [][/\ (Made("create_user") /\ response'.context.is_staff = "unset"
                /\ response'.context.is_superuser = "unset") =>
            /\ Len(users') = Len(users) + 1 /\ response'.user = Len(users')
            /\ ~MadeUser.is_staff /\ ~MadeUser.is_superuser
            /\ response'.context.password # NoPassword =>
                    check_password(response'.context.password, MadeUser.password)
       /\ (Made("create_superuser") /\ response'.context.is_staff = "unset"
                /\ response'.context.is_superuser = "unset") =>
            /\ Len(users') = Len(users) + 1 /\ response'.user = Len(users')
            /\ MadeUser.is_staff /\ MadeUser.is_superuser /\ MadeUser.is_active
       /\ FlagNotTrue => (response'.exc = "ValueError" /\ users' = users)]_vars

\* Both methods were called without flags and create_superuser once more
\* with is_staff=False: a plain user and a superuser are stored, and the third
\* call raised ValueError.
C15_Witness ==
    /\ ran = <<"create_user", "create_superuser", "create_superuser">>
    /\ Len(users) = 2
    /\ ~users[1].is_staff /\ ~users[1].is_superuser
    /\ check_password("testpass123", users[1].password)
    /\ users[2].is_staff /\ users[2].is_superuser /\ users[2].is_active
    /\ response.context.is_staff = "False"
    /\ response.exc = "ValueError"

\* No two rows of the users table hold the same email.
EmailsUnique ==
    \A i, j \in UserIds : users[i].email = users[j].email => i = j

\* The email of the call, as the manager stores it, is held by a user.
EmailHeld ==
    \E i \in UserIds : users[i].email = normalize_email(response'.context.email)

\* C16: no two users ever share an email; a call of create_user or
\* create_superuser whose email an existing user holds fails and leaves the
\* users unchanged, and a call with an empty email raises ValueError and
\* creates no user.
C16_EmailUnique ==
    /\ []EmailsUnique
    /\ [][response'.view \in {"create_user", "create_superuser"} =>
            /\ EmailHeld => (response'.exc # "" /\ users' = users)
            /\ response'.context.email = "" =>
                    (response'.exc = "ValueError" /\ users' = users)]_vars

\* With root@example.com stored, a call for another username with
\* root@EXAMPLE.com was refused by the unique email.
C16_Witness ==
    /\ Len(ran) = 2
    /\ Len(users) = 1
    /\ users[1].email = "root@example.com"
    /\ response.view = "create_user"
    /\ response.context.email = "root@EXAMPLE.com"
    /\ response.context.username # users[1].username
    /\ response.exc = "IntegrityError"

\* The rows of the Book table of the API all have a year from 1000 to 2024.
ApiYearsInRange ==
    \A k \in DOMAIN api_books :
        /\ api_books[k].publication_year >= 1000
        /\ api_books[k].publication_year <= 2024

WriteViews == {"api.CreateView", "api.UpdateView", "api.DeleteView"}

CompleteCreate(r) ==
    /\ r.view = "api.CreateView"
    /\ r.user # Anonymous
    /\ r.method = "POST"
    /\ field_errors(r.data, FALSE) = {}

\* C18: the serializer accepts a complete payload iff its publication_year is
\* from 1000 to 2024: the create endpoint stores the book and answers 201
\* then, and otherwise answers 400 with the message of validate and creates
\* no book; every stored book has a year in that range.
C18_YearDecidesAcceptance ==
    /\ []ApiYearsInRange
    /\ [][CompleteCreate(response') =>
            IF /\ ToInteger(response'.data.publication_year) >= 1000
               /\ ToInteger(response'.data.publication_year) <= 2024
            THEN /\ response'.status = 201
                 /\ DOMAIN api_books' = DOMAIN api_books \cup {api_next_pk}
                 /\ api_books'[api_next_pk] =
                        ApiBook(response'.data.title,
                                ToInteger(response'.data.publication_year),
                                response'.data.author)
            ELSE /\ response'.status = 400
                 /\ response'.errors = {YearMessage}
                 /\ api_books' = api_books]_vars

\* A payload refused for its year alone while a book is stored.
C18_Witness ==
    /\ CompleteCreate(response)
    /\ response.status = 400
    /\ response.errors = {YearMessage}
    /\ api_books # EmptyTable

\* C19: an authenticated delete of a stored book answers 204 and removes that
\* book and no other, every author staying; a retrieve or an authenticated
\* delete of a pk that is not stored answers 404 and changes nothing.
C19_DeleteRemovesOne ==
    [][/\ (/\ response'.view = "api.DeleteView"
           /\ response'.method = "DELETE"
           /\ response'.user # Anonymous)
          => IF response'.pk \in DOMAIN api_books
             THEN /\ response'.status = 204
                  /\ DOMAIN api_books' = DOMAIN api_books \ {response'.pk}
                  /\ Cardinality(DOMAIN api_books') = Cardinality(DOMAIN api_books) - 1
                  /\ \A k \in DOMAIN api_books' : api_books'[k] = api_books[k]
                  /\ api_authors' = api_authors
             ELSE /\ response'.status = 404
                  /\ api_books' = api_books
                  /\ api_authors' = api_authors
       /\ (/\ response'.view = "api.DetailView"
           /\ response'.pk \notin DOMAIN api_books)
          => /\ response'.status = 404
             /\ api_books' = api_books
             /\ api_authors' = api_authors]_vars

\* A delete answered 204 that left another book stored.
C19_Witness ==
    /\ response.view = "api.DeleteView"
    /\ response.status = 204
    /\ response.pk \notin DOMAIN api_books
    /\ api_books # EmptyTable

\* A GET of the list endpoint.
Listing(r) == r.view = "api.ListView" /\ r.method = "GET"

\* The stored books equal to every filter value of the query.
Matching(query) ==
    {k \in DOMAIN api_books :
        /\ query.author # None => api_books[k].author = query.author
        /\ query.publication_year # "" /\ IsInteger(query.publication_year) =>
                api_books[k].publication_year = ToInteger(query.publication_year)
        /\ query.publication_year # "" => IsInteger(query.publication_year)}

\* The value of a row in a field books can be ordered by.
FieldValue(row, field) ==
    IF field = "title" THEN title_order[row.title] ELSE row.publication_year

\* The sequence of pks is in ascending order of the fields, the first field
\* deciding, the next one among rows equal in it.
Ascending(listed, fields) ==
    \A i, j \in DOMAIN listed :
        i < j =>
            \A n \in DOMAIN fields :
                (\A m \in 1 .. n - 1 :
                    FieldValue(api_books[listed[i]], fields[m])
                        = FieldValue(api_books[listed[j]], fields[m]))
                => FieldValue(api_books[listed[i]], fields[n])
                        <= FieldValue(api_books[listed[j]], fields[n])

\* The list holds each matching book once and no other book.
ListsExactly(listed, pks) ==
    /\ {listed[n] : n \in DOMAIN listed} = pks
    /\ Len(listed) = Cardinality(pks)

\* The order the claim gives a listing: that of the requested fields, and
\* publication_year then title where none is requested.
InRequestedOrder(r) ==
    IF r.query.ordering = <<>>
    THEN Ascending(r.listed, <<"publication_year", "title">>)
    ELSE (\A n \in DOMAIN r.query.ordering :
                r.query.ordering[n] \in {"title", "publication_year"})
            => Ascending(r.listed, r.query.ordering)

\* C20 as stated: the list endpoint answers every filter value with the
\* stored books that match, in the requested order.
C20_ListsMatchingInOrder ==
    Listing(response) =>
        /\ response.status = 200
        /\ ListsExactly(response.listed, Matching(response.query))
        /\ InRequestedOrder(response)

\* The filter values of the query are ones the filter accepts: an author
\* that is stored, a publication_year that is a number.
AcceptedFilterValues(query) ==
    /\ query.author # None => query.author \in DOMAIN api_authors
    /\ query.publication_year # "" => IsInteger(query.publication_year)

\* C20: the list endpoint given filter values for author and/or
\* publication_year that the filter accepts returns exactly the stored books
\* that match every value, in ascending order of the requested ordering
\* fields, and by publication_year then title when no ordering is requested;
\* a filter value the filter refuses is answered 400.
C20_ListsMatchingAcceptedValues ==
    Listing(response) =>
        IF AcceptedFilterValues(response.query)
        THEN /\ response.status = 200
             /\ ListsExactly(response.listed, Matching(response.query))
             /\ InRequestedOrder(response)
        ELSE response.status = 400 /\ response.listed = <<>>

\* A listing filtered by year whose two books come in the default order,
\* the one stored last first.
C20_Witness ==
    /\ Listing(response)
    /\ response.status = 200
    /\ response.query.publication_year = "1000"
    /\ response.query.ordering = <<>>
    /\ response.listed = <<2, 1>>
    /\ DOMAIN api_books = {1, 2}

\* C21 (as the specification states it): on a database just migrated, once
\* relationship_app's setup_groups and then its create_test_users have run,
\* admin_user of the group Admins passes the gate of every guarded view of
\* relationship_app: list, add, change and delete of books and of authors.
C21_AdminPassesEveryGate ==
    ran = <<"relationship_app.setup_groups", "relationship_app.create_test_users">> =>
        \E u \in UserIds :
            /\ users[u].username = "admin_user"
            /\ "Admins" \in user_groups[u]
            /\ \A k \in RelationshipGate : has_perm(u, k)

\* The response answers a request for delete_book of a stored book, sent by a
\* logged-in holder of can_delete.
DeleteOfStoredByHolder ==
    /\ response'.view = "bookshelf.delete_book"
    /\ response'.user # Anonymous
    /\ has_perm(response'.user, Perm("bookshelf", "can_delete"))
    /\ response'.url_pk \in DOMAIN int_converter
    /\ int_converter[response'.url_pk] \in DOMAIN books

\* C22: delete_book deletes a book only on a POST: a GET by a holder of
\* can_delete renders the confirmation page and leaves the books as they
\* were, and a POST the view accepts removes the addressed book and no other.
C22_DeleteOnlyOnPost ==
    [][/\ (response'.view = "bookshelf.delete_book" /\ books' # books)
            => response'.method = "POST"
       /\ (DeleteOfStoredByHolder /\ response'.method = "GET")
            => /\ response'.status = 200
               /\ response'.exc = ""
               /\ books' = books
       /\ (DeleteOfStoredByHolder /\ response'.method = "POST" /\ response'.csrf)
            => /\ response'.status = 302
               /\ DOMAIN books' = DOMAIN books \ {int_converter[response'.url_pk]}
               /\ \A k \in DOMAIN books' : books'[k] = books[k]]_vars

\* A holder of can_delete was shown the confirmation page of a stored book.
C22_Witness ==
    /\ response.view = "bookshelf.delete_book"
    /\ response.method = "GET"
    /\ response.user # Anonymous
    /\ has_perm(response.user, Perm("bookshelf", "can_delete"))
    /\ response.status = 200
    /\ response.url_pk \in DOMAIN int_converter
    /\ int_converter[response.url_pk] \in DOMAIN books

\* The books a user is the borrower of.
BorrowedBy(u) == {k \in DOMAIN books : books[k].borrower = u}

\* Every user is the borrower of at most one book.
OneLoanPerUser == \A u \in UserIds : Cardinality(BorrowedBy(u)) <= 1

\* C23: in every state reached from the empty Book table by add_book and
\* edit_book requests, every user is the borrower of at most one book; a
\* request that writes a book with a borrower names a user who was borrowing
\* no book.
C23_AtMostOneLoan ==
    /\ []OneLoanPerUser
    /\ [][(books' # books /\ posted'.borrower # None)
            => BorrowedBy(posted'.borrower) = {}]_vars

\* Two books are out to two users, and a form that names one of them as the
\* borrower of a third has been turned down.
C23_Witness ==
    /\ \E u, v \in UserIds : u # v /\ BorrowedBy(u) # {} /\ BorrowedBy(v) # {}
    /\ response.view = "bookshelf.add_book"
    /\ response.method = "POST"
    /\ response.status = 200
    /\ posted.title # ""
    /\ posted.borrower # None

\* The response answers a POST to edit_book, sent by a holder of can_edit for
\* a stored book that has a borrower, whose form names that same borrower
\* under another title.
RetitleOfLentBook ==
    /\ response'.view = "bookshelf.edit_book"
    /\ response'.method = "POST" /\ response'.csrf
    /\ response'.user # Anonymous
    /\ has_perm(response'.user, Perm("bookshelf", "can_edit"))
    /\ int_converter[response'.url_pk] \in DOMAIN books
    /\ books[int_converter[response'.url_pk]].borrower # None
    /\ posted'.borrower = books[int_converter[response'.url_pk]].borrower
    /\ posted'.title \notin {"", books[int_converter[response'.url_pk]].title}

\* C24 (as the specification states it): a holder of can_edit can change the
\* title of a book that has a borrower while resubmitting that borrower: the
\* POST is accepted, the title is the new one and the borrower stays.
C24_RetitleKeepsBorrower ==
    [][RetitleOfLentBook =>
        /\ response'.status = 302
        /\ books'[int_converter[response'.url_pk]].title = posted'.title
        /\ books'[int_converter[response'.url_pk]].borrower
                = books[int_converter[response'.url_pk]].borrower]_vars

\* The step is a run of the command over groups_data that leaves every group
\* of groups_data with the permissions of its list that the Permission table
\* holds and no other, raises nothing, writes no other table, and is such
\* that the command run again would leave the tables as they are.
SetsUpGroups(command, groups_data) ==
    response'.view = command =>
        /\ response'.exc = ""
        /\ \A i \in DOMAIN groups_data :
            /\ groups_data[i].name \in DOMAIN groups'
            /\ groups'[groups_data[i].name] =
                {groups_data[i].permissions[n] : n \in DOMAIN groups_data[i].permissions}
                    \cap permissions
        /\ UNCHANGED <<users, user_groups, user_permissions, permissions, profiles>>
        /\ setup_groups(Db, groups_data, 1)' = Ok(Db', None)

\* C25: a run of setup_groups leaves each of Viewers, Editors and Admins with
\* exactly the permissions of its configured list that exist in the
\* Permission table (a permission the group held that is not in the list is
\* removed, a missing one is skipped and the run goes on), and a second run
\* right after changes nothing.
C25_SetupGroupsIdempotent ==
    [][/\ SetsUpGroups("bookshelf.setup_groups", BookshelfGroups)
       /\ SetsUpGroups("relationship_app.setup_groups", RelationshipGroups)]_vars

\* bookshelf's setup_groups ran right after relationship_app's and took from
\* Admins the permission that run had given it.
C25_Witness ==
    /\ Len(ran) >= 2
    /\ ran[Len(ran)] = "bookshelf.setup_groups"
    /\ ran[Len(ran) - 1] = "relationship_app.setup_groups"
    /\ "Admins" \in DOMAIN groups
    /\ groups["Admins"] = {}

\* No user has two profiles, and every user made while the handlers were
\* connected has one.
OneProfileEach ==
    \A u \in UserIds :
        /\ Cardinality(ProfilesOf(u)) <= 1
        /\ users[u].username # "old" => Cardinality(ProfilesOf(u)) = 1

\* The step is a creation or a save of a user.
UserSaved == response'.view \in {"relationship_app.register", "User.save"}

\* C26: with the post_save handlers connected, after any creations and saves
\* of users no user has two profiles and every user created or saved has
\* exactly one; a creation adds the one profile of its user, a save of a user
\* without a profile adds it, and neither raises nor alters any stored role.
C26_SignalsKeepOneProfile ==
    /\ []OneProfileEach
    /\ [][UserSaved =>
            /\ response'.exc = ""
            /\ Cardinality({i \in DOMAIN profiles' :
                                profiles'[i].user = response'.user}) = 1
            /\ \A i \in DOMAIN profiles : profiles'[i] = profiles[i]
            /\ Len(profiles') =
                    Len(profiles) + (IF ProfilesOf(response'.user) = {} THEN 1 ELSE 0)
            /\ response'.view = "relationship_app.register" =>
                    Len(profiles') = Len(profiles) + 1]_vars

\* The user made before the handlers were connected was saved, has the role
\* it was assigned, not the default one, and a registered user has a profile.
C26_Witness ==
    /\ response.view = "User.save"
    /\ response.user = 1
    /\ \E i \in ProfilesOf(1) : profiles[i].role = "admin"
    /\ Len(users) >= 2

\* The response carries book data: the list of book_list or list_books, or
\* the page of book_detail for a stored book.
ReturnsBookData ==
    /\ response.view \in {"bookshelf.book_list", "bookshelf.list_books",
                          "bookshelf.book_detail"}
    /\ response.status = 200

\* C27 (as the specification states it): every bookshelf view that returns
\* book data requires can_view or a stronger book permission, so a logged-in
\* user who holds none obtains no book's details through book_list,
\* list_books or book_detail.
C27_BookDataNeedsCanView ==
    (ReturnsBookData /\ response.user # Anonymous) =>
        \E c \in GateCodenames : has_perm(response.user, Perm("bookshelf", c))

\* The views of relationship_app that write books or authors.
RelationshipWriteViews ==
    {"relationship_app.add_book", "relationship_app.change_book",
     "relationship_app.delete_book", "relationship_app.add_author",
     "relationship_app.change_author", "relationship_app.delete_author"}

\* C28 (as the specification states it): in relationship_app no GET request
\* changes the stored books or authors; the add, change and delete views
\* write only on a POST.
C28_GetWritesNothing ==
    [][(response'.view \in RelationshipWriteViews /\ (rbooks' # rbooks \/ authors' # authors))
            => response'.method = "POST"]_vars

\* The response answers a request that the create or the update endpoint
\* handed to the serializer: it was authenticated, of a method of the view
\* and, for an update, for a stored book.
ReachedSerializer ==
    /\ response.view \in {"api.CreateView", "api.UpdateView"}
    /\ response.status \notin {401, 403, 404, 405}

\* C29 (as the specification states it): every request that reaches
\* BookSerializer.validate through the create and update endpoints, a partial
\* update that omits publication_year included, ends in acceptance or in a
\* 400 validation error, never in an unhandled exception.
C29_AcceptedOrBadRequest ==
    ReachedSerializer =>
        /\ response.status \in {200, 201, 400}
        /\ response.exc \in {"", "ValidationError"}

\* The response answers a registration posted with an email that a user of
\* the blog holds.
RegistersHeldEmail ==
    /\ response'.view = "blog.register"
    /\ response'.method = "POST"
    /\ \E i \in UserIds : users[i].email = posted'.email

\* C30 (as the specification states it): a registration whose email belongs
\* to an existing user is rejected as a validation error of the form, which
\* is rendered again with the error, no exception leaving the view, and no
\* user is created; blog users never share an email.
C30_DuplicateEmailIsFormError ==
    /\ []EmailsUnique
    /\ [][RegistersHeldEmail =>
            /\ response'.status = 200
            /\ response'.exc = ""
            /\ "email" \in response'.context
            /\ users' = users]_vars


=============================================================================
